---- MODULE Spec2Model ----
(***************************************************************************)
(* Orchestration core of charm: agent runs, the checkout orchestrator,     *)
(* the billing bridge, the renewal sweep and the Stripe webhook            *)
(* reconciler.                                                             *)
(*                                                                         *)
(* Environment model.  The local database executes every statement (a      *)
(* lookup finds the row or finds nothing; a foreign key on a missing row   *)
(* rejects the insert).  The external collaborators can fail at every      *)
(* call: the browser capability (stagehand.init, stagehand.act) and the    *)
(* payment processor (the stripe client).  Explicit throw statements     *)
(* fire on their own conditions; optional configuration (src/env.js) is  *)
(* chosen in Init and never changes.  Time is counted in whole days.      *)
(***************************************************************************)
EXTENDS Integers, Sequences, FiniteSets, TLC

\* ------------------------------------------------------------------------
\* Bounds
\* ------------------------------------------------------------------------
MaxRuns == 3
MaxTime == 2
MaxItems == 2
MaxSweeps == 2
MaxEvents == 3
MaxOrders == 2
MaxLines == 4
MaxCalls == 3
MaxPrice == 40
MaxCadence == 90
MaxPolls == 2
AttemptLimit == 2

\* ------------------------------------------------------------------------
\* Fixed data
\* ------------------------------------------------------------------------
NULL == -1
NoId == "none"
UserIds == {"u1", "u2"}
IntentIds == {"i1", "i2", "i3"}
SubIds == {"s1", "s2", "s3"}
AddressIds == {"a1"}
IntentOwner == [i \in IntentIds |-> IF i = "i3" THEN "u2" ELSE "u1"]

VARIABLES
  env,             \* configuration: [stagehand, stripeKey, webhookSecret,
                   \*   production, cronSecret]
  now,             \* the clock, in days
  subscriptionIntent,  \* table: IntentIds -> row
  address,         \* table: the address ids that exist
  subscription,    \* table: SubIds -> row (status "absent" = no such row)
  agentRun,        \* table: sequence of rows, the run id is the index
  stripeCustomer,  \* table: the users that have a stripe_customer row
  stripeFee,       \* table: UserIds -> status of the billing vehicle row
  invoiceItems,    \* processor side: sequence of invoice items created
  chat,            \* the chat startCheckout tool call in progress
  job,             \* the /api/agents/run job in progress
  trpc,            \* the tRPC startCheckout mutation in progress
  sweep,           \* the renewal sweep in progress
  lastCheckout,    \* history: the executeCheckout call that ended last
  billingRan,      \* history: the run ids whose purchase reached a charge append
  order,           \* table: sequence of Order rows
  webhook,         \* the webhook endpoint: last response, and history
  cron,            \* the sweep endpoint: the last request it answered or admitted
  bridge,          \* history: the calls of appendInvoiceItemForSubscription
  proration,       \* a call of calculateMonthlyProratedAmount: input and result
  poll,            \* the status endpoint: the last poll and its answer
  payment,         \* table: sequence of Payment rows
  immediate,       \* history: the calls of chargeImmediatelyForOrder
  sweepB,          \* a second invocation of the renewal sweep
  client           \* a call of pollAgentUntilComplete

vars == <<env, now, subscriptionIntent, address, subscription, agentRun,
          stripeCustomer, stripeFee, invoiceItems, chat, job, trpc, sweep,
          lastCheckout, billingRan, order, webhook, cron, bridge, proration,
          poll, payment, immediate, sweepB, client>>

\* ------------------------------------------------------------------------
\* agent_run rows
\* ------------------------------------------------------------------------
RunIds == 1..Len(agentRun)

\* attempt is a history field: the run id the entry point had allocated
\* for the logical attempt this row was written for (0: none allocated).
NewRun(intentId, phase, attempt) ==
  [intentId |-> intentId, phase |-> phase, error |-> "", output |-> FALSE,
   session |-> FALSE, createdAt |-> now, endedAt |-> NULL,
   attempt |-> attempt]

\* db.update(agentRun).set({...}).where(eq(agentRun.id, id)): no row, no change
UpdateRun(runs, id, fields) ==
  IF id \in 1..Len(runs)
    THEN [runs EXCEPT ![id] = [f \in DOMAIN runs[id] |->
            IF f \in DOMAIN fields THEN fields[f] ELSE runs[id][f]]]
    ELSE runs

SetFailedNoEnd(runs, id, msg) ==
  UpdateRun(runs, id, [phase |-> "failed", error |-> msg])

\* the error update of executeCheckout's catch block
CheckoutCatchUpdate(runs, id, msg) ==
  UpdateRun(runs, id, [phase |-> "failed", error |-> msg, endedAt |-> now])

\* the "done" update of nativeSubscriptionCheckout / manualPurchaseCheckout
CheckoutDoneUpdate(runs, id) ==
  UpdateRun(runs, id, [phase |-> "done", output |-> TRUE, endedAt |-> now])

\* ------------------------------------------------------------------------
\* Billing bridge
\* ------------------------------------------------------------------------
BILLING_CYCLE_DAYS == 30

\* no call of calculateMonthlyProratedAmount yet
NoProration ==
  [productPriceCents |-> 0, cadenceDays |-> 0, totalCents |-> NULL,
   description |-> [regime |-> "none", count |-> 0]]

\* no call of appendInvoiceItemForSubscription yet
NoBridge == [n |-> 0, last |-> "none", event |-> <<NoId, NoId>>, returned |-> <<>>]

\* no status request yet
NoImmediate == [n |-> 0, last |-> "none", subscriptionId |-> NoId, finalized |-> 0]

\* pollAgentUntilComplete: not called
NoClient == [pc |-> "idle", runId |-> 0, maxAttempts |-> 0, attempt |-> 0,
             polls |-> 0, answer |-> "none", outcome |-> "none"]

\* posted: the runId of the last POST /api/agents/run response; runId: the
\* argument of useAgentJob; status, answer: the last status response
NoPoll == [posted |-> 0, runId |-> 0, isPolling |-> FALSE, status |-> 0, answer |-> "none", n |-> 0]

\* productPriceCents * 30 / cadenceDays rounded to the nearest integer, a
\* half rounded up, in exact arithmetic
RoundedExactly(productPriceCents, cadenceDays) ==
  (2 * productPriceCents * BILLING_CYCLE_DAYS + cadenceDays) \div (2 * cadenceDays)

\* The pairs <<productPriceCents, cadenceDays>> at which the exact product is
\* a half-cent tie while the double product productPriceCents * (30 /
\* cadenceDays) lies just below it: 30 / cadenceDays is rounded down to a
\* double first (30 / 44 = 0.68181818181818177...), and 11 times that is
\* 7.4999999999999991.  Tabulated from IEEE-754 binary64 for prices up to 61
\* and the prices 2000 and 2001, cadences up to 99; on that domain the double
\* product is on the same side of every other half as the exact product.
TiesBelowHalf == {<<11, 44>>, <<13, 52>>, <<22, 88>>, <<39, 52>>}

\* Math.round(productPriceCents * (30 / cadenceDays)) in doubles
ProratedTotalCents(productPriceCents, cadenceDays) ==
  IF <<productPriceCents, cadenceDays>> \in TiesBelowHalf
    THEN RoundedExactly(productPriceCents, cadenceDays) - 1
    ELSE RoundedExactly(productPriceCents, cadenceDays)

\* occurrences.toFixed(2), in hundredths
OccurrencesToFixed2(cadenceDays) ==
  (2 * 100 * BILLING_CYCLE_DAYS + cadenceDays) \div (2 * cadenceDays)

NoPartial(cadenceDays) == 0

\* Math.round((occurrences - fullOccurrences) * 100)
PartialPercent(cadenceDays) ==
  (2 * 100 * (BILLING_CYCLE_DAYS % cadenceDays) + cadenceDays) \div (2 * cadenceDays)

\* the description template chosen, with the number it is filled with:
\* "Monthly delivery", "Nx per month", "~N.NNx per month", "Partial monthly
\* charge (..., N.NNx per 30 days)"
ProrationDescription(cadenceDays) ==
  IF cadenceDays = 30
    THEN [regime |-> "monthly", count |-> 0]
  ELSE IF cadenceDays < 30
    THEN IF PartialPercent(cadenceDays) = 0
           THEN [regime |-> "times", count |-> BILLING_CYCLE_DAYS \div cadenceDays]
           ELSE [regime |-> "approx", count |-> OccurrencesToFixed2(cadenceDays)]
  ELSE [regime |-> "partial", count |-> OccurrencesToFixed2(cadenceDays)]

\* one call of calculateMonthlyProratedAmount on the arguments held in
\* proration
Calculate ==
  /\ proration.totalCents = NULL
  /\ proration' = [proration EXCEPT
       !.totalCents = ProratedTotalCents(proration.productPriceCents,
                                         proration.cadenceDays),
       !.description = ProrationDescription(proration.cadenceDays)]
  /\ UNCHANGED <<billingRan, env, now, subscriptionIntent, address, subscription,
                 agentRun, stripeCustomer, stripeFee, invoiceItems, chat, job,
                 trpc, sweep, lastCheckout, order, webhook, cron, bridge, poll>>
  /\ UNCHANGED <<payment, immediate, sweepB, client>>

\* stripe.invoiceItems.create of appendInvoiceItemForSubscription.  attempt
\* is a history field: the run id of the purchase attempt the caller bills.
InvoiceItem(userId, intentId, productPriceCents, cadenceDays, attempt) ==
  [userId |-> userId, subscriptionIntentId |-> intentId, orderId |-> "",
   amount |-> ProratedTotalCents(productPriceCents, cadenceDays),
   productPriceCents |-> productPriceCents, cadenceDays |-> cadenceDays,
   subscriptionId |-> NoId, invoice |-> NoId, attempt |-> attempt]

\* appendInvoiceItemForSubscription: throws when the user has no
\* stripe_customer row or when the processor call fails (stripeOk = FALSE).
AppendThrows(userId, stripeOk) ==
  userId \notin stripeCustomer \/ ~stripeOk

AppendOncePerEvent(items, userId, intentId, productPriceCents, cadenceDays, attempt) ==
  IF \E k \in 1..Len(items) : /\ items[k].userId = userId
                               /\ items[k].subscriptionIntentId = intentId
    THEN items
    ELSE Append(items, InvoiceItem(userId, intentId, productPriceCents, cadenceDays,
                                   attempt))

AppendInvoiceItemForSubscription(items, userId, intentId, productPriceCents, cadenceDays, attempt) ==
  Append(items, InvoiceItem(userId, intentId, productPriceCents, cadenceDays,
                            attempt))

\* one call of appendInvoiceItemForSubscription, from its first statement
\* to its return or throw
AppendCall(userId, intentId, productPriceCents, cadenceDays, stripeOk) ==
  /\ bridge.n < MaxCalls
  /\ IF AppendThrows(userId, stripeOk)
       THEN /\ invoiceItems' = invoiceItems
            /\ bridge' = [bridge EXCEPT !.n = @ + 1, !.last = "threw",
                                        !.event = <<userId, intentId>>]
       ELSE /\ Len(invoiceItems) < MaxItems
            /\ invoiceItems' = AppendInvoiceItemForSubscription(invoiceItems,
                 userId, intentId, productPriceCents, cadenceDays, 0)
            /\ bridge' = [n |-> bridge.n + 1, last |-> "returned",
                          event |-> <<userId, intentId>>,
                          returned |-> Append(bridge.returned, <<userId, intentId>>)]
  /\ UNCHANGED <<billingRan, env, now, subscriptionIntent, address, subscription,
                 agentRun, stripeCustomer, stripeFee, chat, job, trpc, sweep,
                 lastCheckout, order, webhook, cron, proration, poll>>
  /\ UNCHANGED <<payment, immediate, sweepB, client>>

\* chargeForCheckout with chargeImmediately = false
ChargeForCheckout(items, userId, intentId, productPriceCents, cadenceDays, attempt) ==
  AppendInvoiceItemForSubscription(items, userId, intentId, productPriceCents,
                                   cadenceDays, attempt)

\* checkUserHasActiveSubscription
CheckUserHasActiveSubscription(userId) == stripeFee[userId] = "active"

\* ------------------------------------------------------------------------
\* Checkout orchestrator: executeCheckout, split at the call of the
\* external capability (stagehand.act)
\* ------------------------------------------------------------------------
\* agent_run.intentId references subscription_intent.id and is nullable
IntentRefOk(intentId) == intentId \in IntentIds \cup {NoId}

\* createStagehand throws exactly when its configuration is missing
BeginFaults == IF env.stagehand THEN {"none", "init"} ELSE {"create"}
FinishFaults == {"none", "act"}

\* From the call up to the strategy function's stagehand.act.
\*   status "thrown"   : createStagehand threw, outside the try block
\*   status "failed"   : stagehand.init threw, handled by the catch block
\*   status "inflight" : the run row is allocated or reused
ExecuteCheckoutBegin(runs, provided, intentId, attempt, fault) ==
  CASE fault = "create" ->
         [runs |-> runs, run |-> provided, status |-> "thrown"]
    [] fault = "init" ->
         [runs |-> IF provided # 0
                     THEN CheckoutCatchUpdate(runs, provided, "init failed")
                     ELSE runs,
          run |-> provided, status |-> "failed"]
    [] provided = 0 /\ ~IntentRefOk(intentId) ->
         \* the insert is rejected inside the try block; no id to mark failed
         [runs |-> runs, run |-> 0, status |-> "failed"]
    [] OTHER ->
         IF provided = 0
           THEN [runs |-> Append(runs, NewRun(intentId, "checkout", attempt)),
                 run |-> Len(runs) + 1, status |-> "inflight"]
           ELSE [runs |-> UpdateRun(runs, provided, [session |-> TRUE]),
                 run |-> provided, status |-> "inflight"]

\* nativeSubscriptionCheckout / manualPurchaseCheckout and the catch block
ExecuteCheckoutFinish(runs, run, fault) ==
  IF fault = "act"
    THEN [runs |-> IF run # 0 THEN CheckoutCatchUpdate(runs, run, "act failed")
                              ELSE runs,
          run |-> run, status |-> "failed"]
    ELSE [runs |-> IF run # 0 THEN CheckoutDoneUpdate(runs, run) ELSE runs,
          run |-> run, status |-> "ok"]

ConfirmsPayment(useNativeSubscription) ==
  [success |-> TRUE, requiresManualIntervention |-> FALSE]

\* the CheckoutResult returned by nativeSubscriptionCheckout (TRUE) and by
\* manualPurchaseCheckout (FALSE): both stop before "Place Order"
StrategyResult(useNativeSubscription) ==
  IF useNativeSubscription
    THEN [success |-> TRUE, requiresManualIntervention |-> TRUE]
    ELSE [success |-> TRUE, requiresManualIntervention |-> TRUE]

\* the CheckoutResult of executeCheckout's catch block and of
\* resumeCheckoutWithPayment: requiresManualIntervention is not set
FailureResult == [success |-> FALSE, requiresManualIntervention |-> FALSE]

\* CheckoutResult as the caller sees it, kept as history
CheckoutRecordFor(useNativeSubscription, caller, provided, r, fault) ==
  LET result == IF r.status = "ok" THEN StrategyResult(useNativeSubscription)
                                   ELSE FailureResult IN
  [caller |-> caller, provided |-> provided, run |-> r.run, fault |-> fault,
   outcome |-> r.status, useNativeSubscription |-> useNativeSubscription,
   success |-> result.success,
   requiresManualIntervention |-> result.requiresManualIntervention]

\* the entry points are modelled with the default strategy
\* (useNativeSubscription = false), which is also what the sweep passes
CheckoutRecord(caller, provided, r, fault) ==
  CheckoutRecordFor(FALSE, caller, provided, r, fault)

NoCheckout ==
  [caller |-> "none", provided |-> 0, run |-> 0, fault |-> "none",
   outcome |-> "none", useNativeSubscription |-> FALSE, success |-> FALSE,
   requiresManualIntervention |-> FALSE]

\* executeCheckout called directly, from its first statement to its return
ExecuteCheckout(useNativeSubscription, provided, intentId, begin, finish) ==
  /\ provided = 0 => Len(agentRun) < MaxRuns
  /\ LET b == ExecuteCheckoutBegin(agentRun, provided, intentId, 0, begin)
         r == IF b.status = "inflight"
                THEN ExecuteCheckoutFinish(b.runs, b.run, finish) ELSE b
     IN /\ agentRun' = r.runs
        /\ lastCheckout' = CheckoutRecordFor(useNativeSubscription, "direct",
                                             provided, r, 
                                             IF b.status = "inflight" THEN finish
                                                                      ELSE begin)
  /\ UNCHANGED <<billingRan, env, now, subscriptionIntent, address, subscription,
                 stripeCustomer, stripeFee, invoiceItems, chat, job, trpc, sweep,
                 order, webhook, cron>>
  /\ UNCHANGED <<bridge, proration, poll>>
  /\ UNCHANGED <<payment, immediate, sweepB, client>>

\* resumeCheckoutWithPayment({ sessionId, agentRunId }): not implemented,
\* it only returns a failure
ResumeCheckoutWithPayment(run) ==
  /\ run \in RunIds
  /\ agentRun[run].session
  /\ lastCheckout' = [caller |-> "resume", provided |-> run, run |-> run,
                      fault |-> "none", outcome |-> "failed",
                      useNativeSubscription |-> FALSE,
                      success |-> FailureResult.success,
                      requiresManualIntervention |->
                        FailureResult.requiresManualIntervention]
  /\ UNCHANGED <<billingRan, env, now, subscriptionIntent, address, subscription,
                 agentRun, stripeCustomer, stripeFee, invoiceItems, chat, job,
                 trpc, sweep, order, webhook, cron>>
  /\ UNCHANGED <<bridge, proration, poll>>
  /\ UNCHANGED <<payment, immediate, sweepB, client>>

\* ------------------------------------------------------------------------
\* Chat tool startCheckout (src/app/api/chat/route.ts)
\* ------------------------------------------------------------------------
ChatIdle == [pc |-> "idle", runId |-> 0, intentId |-> NoId, user |-> NoId]

\* the error update of the tool's outer catch block
ChatCatchSkipped(runs, id) == runs

ChatCatchUpdate(runs, id) ==
  UpdateRun(runs, id, [phase |-> "failed", error |-> "Failed to start checkout process",
                       endedAt |-> now])

\* updateSubscriptionIntent({ id, updates: { maxPriceCents } }) when the
\* fetched price is known and differs
RefreshIntentPrice(intents, i, price) ==
  IF price # NULL /\ intents[i].maxPriceCents # price
    THEN [intents EXCEPT ![i].maxPriceCents = price]
    ELSE intents

\* From the tool call up to the checkout being in flight.
ChatStartCheckout(u, i, a, price, fault) ==
  /\ chat.pc = "idle"
  /\ Len(agentRun) < MaxRuns
  /\ LET runId == Len(agentRun) + 1 IN
     IF a \notin address
       THEN \* "Address not found": returned before anything is written
            /\ chat' = ChatIdle
            /\ UNCHANGED <<agentRun, subscriptionIntent, lastCheckout>>
     ELSE IF ~IntentRefOk(i)
       THEN \* the insert is rejected; the catch block updates no row
            /\ chat' = ChatIdle
            /\ UNCHANGED <<agentRun, subscriptionIntent, lastCheckout>>
     ELSE
       LET inserted == Append(agentRun, NewRun(i, "checkout", runId))
           r == ExecuteCheckoutBegin(inserted, runId, i, runId, fault)
       IN
       /\ subscriptionIntent' = RefreshIntentPrice(subscriptionIntent, i, price)
       /\ CASE r.status = "thrown" ->
                 /\ agentRun' = ChatCatchUpdate(r.runs, runId)
                 /\ chat' = ChatIdle
                 /\ lastCheckout' = CheckoutRecord("chat", runId, r, fault)
            [] r.status = "failed" ->
                 /\ agentRun' = r.runs
                 /\ chat' = ChatIdle
                 /\ lastCheckout' = CheckoutRecord("chat", runId, r, fault)
            [] OTHER ->
                 /\ agentRun' = r.runs
                 /\ chat' = [pc |-> "checkout", runId |-> runId, intentId |-> i,
                             user |-> u]
                 /\ UNCHANGED lastCheckout
  /\ UNCHANGED <<billingRan, env, now, address, subscription, stripeCustomer, stripeFee,
                 invoiceItems, job, trpc, sweep>>
  /\ UNCHANGED <<order, webhook, cron, bridge, proration, poll>>
  /\ UNCHANGED <<payment, immediate, sweepB, client>>

\* x || 0 on a nullable integer column
OrZero(x) == IF x = NULL THEN 0 ELSE x

StripeFaults == {"ok", "customer", "session"}

\* createSubscriptionCheckoutSession: createStripeCustomerForUser, then
\* stripe.checkout.sessions.create.  "customer": it throws before a
\* stripe_customer row is written; "session": it throws after.
CustomersAfterCheckoutSession(customers, userId, stripe) ==
  IF stripe = "customer" THEN customers ELSE customers \cup {userId}

\* executeCheckout returns to the tool: the strategy function or the catch
\* block has written the run row.
ChatCheckoutReturns(fault) ==
  /\ chat.pc = "checkout"
  /\ LET r == ExecuteCheckoutFinish(agentRun, chat.runId, fault) IN
     /\ agentRun' = r.runs
     /\ lastCheckout' = CheckoutRecord("chat", chat.runId, r, fault)
     /\ chat' = IF r.status = "ok" THEN [chat EXCEPT !.pc = "billing"]
                                   ELSE ChatIdle
  /\ UNCHANGED <<billingRan, env, now, subscriptionIntent, address, subscription,
                 stripeCustomer, stripeFee, invoiceItems, job, trpc, sweep>>
  /\ UNCHANGED <<order, webhook, cron, bridge, proration, poll>>
  /\ UNCHANGED <<payment, immediate, sweepB, client>>

\* The tool's steps after a successful checkout, up to its return.
ChatBilling(stripe) ==
  /\ chat.pc = "billing"
  /\ Len(invoiceItems) < MaxItems
  /\ LET intent == subscriptionIntent[chat.intentId] IN
     /\ billingRan' = IF env.stripeKey /\ CheckUserHasActiveSubscription(chat.user)
                        THEN billingRan \cup {chat.runId} ELSE billingRan
     /\ chat' = ChatIdle
     /\ IF ~env.stripeKey
          THEN \* import("~/lib/integrations/stripe") throws at module load,
               \* outside the inner try blocks: the outer catch block runs
               /\ agentRun' = ChatCatchUpdate(agentRun, chat.runId)
               /\ UNCHANGED <<stripeCustomer, invoiceItems>>
        ELSE IF ~CheckUserHasActiveSubscription(chat.user)
          THEN /\ stripeCustomer' =
                    CustomersAfterCheckoutSession(stripeCustomer, chat.user, stripe)
               /\ UNCHANGED <<agentRun, invoiceItems>>
        ELSE IF AppendThrows(chat.user, stripe = "ok")
          THEN \* caught by the inner try block and logged
               UNCHANGED <<agentRun, stripeCustomer, invoiceItems>>
        ELSE   /\ invoiceItems' = AppendInvoiceItemForSubscription(invoiceItems,
                    chat.user, chat.intentId, OrZero(intent.maxPriceCents),
                    intent.cadenceDays, chat.runId)
               /\ UNCHANGED <<agentRun, stripeCustomer>>
  /\ UNCHANGED <<env, now, subscriptionIntent, address, subscription, stripeFee,
                 job, trpc, sweep, lastCheckout>>
  /\ UNCHANGED <<order, webhook, cron, bridge, proration, poll>>
  /\ UNCHANGED <<payment, immediate, sweepB, client>>

\* ------------------------------------------------------------------------
\* POST /api/agents/run: executeAgentJob (runs in the background)
\* ------------------------------------------------------------------------
JobIdle == [pc |-> "idle", runId |-> 0, type |-> "none", run |-> 0]
JobTypes == {"plan", "product_intelligence", "checkout"}

\* phase of the row inserted for the job
JobInitialPhase(type) == IF type = "checkout" THEN "checkout" ELSE "plan"

\* "Update agent run with result"
JobDoneUpdate(runs, id) ==
  UpdateRun(runs, id, [phase |-> "done", output |-> TRUE, endedAt |-> now])

\* "Update agent run with error"
JobCatchUpdate(runs, id) ==
  UpdateRun(runs, id, [phase |-> "failed", error |-> "job failed", endedAt |-> now])

\* the same update when the error is the one thrown for a missing
\* subscription or address
JobNotFoundUpdate(runs, id) ==
  UpdateRun(runs, id, [phase |-> "failed",
                       error |-> "Subscription or address not found",
                       endedAt |-> now])

\* The attempt id executeAgentJob hands to executeCheckout: none.
JobProvidedRunId(runId) == 0

\* POST /api/agents/run: executeAgentJob is called without await and the
\* response { runId, status: "running" } is sent; the job's insert of the
\* run row has not completed yet.
PostAgentsRun(type) ==
  /\ job.pc = "idle"
  /\ Len(agentRun) + (IF type = "checkout" THEN 2 ELSE 1) <= MaxRuns
  /\ job' = [pc |-> "posted", runId |-> Len(agentRun) + 1, type |-> type, run |-> 0]
  /\ poll' = [poll EXCEPT !.posted = Len(agentRun) + 1]
  /\ UNCHANGED <<billingRan, env, now, subscriptionIntent, address, subscription,
                 agentRun, stripeCustomer, stripeFee, invoiceItems, chat, trpc,
                 sweep, lastCheckout, order, webhook, cron, bridge, proration>>
  /\ UNCHANGED <<payment, immediate, sweepB, client>>

\* Insert of the run row and, for a checkout job, the lookups and the start
\* of executeCheckout.  found: the subscription and address lookups (whose
\* where-clauses name columns of another table) both return a row.
JobStart(type, found, fault) ==
  /\ job.pc = "idle" \/ (job.pc = "posted" /\ job.type = type)
  /\ Len(agentRun) + (IF type = "checkout" THEN 2 ELSE 1) <= MaxRuns
  /\ LET runId == Len(agentRun) + 1
         inserted == Append(agentRun, NewRun(NoId, JobInitialPhase(type), runId))
     IN
     IF type # "checkout"
       THEN /\ agentRun' = inserted
            /\ job' = [pc |-> "running", runId |-> runId, type |-> type,
                       run |-> 0]
            /\ UNCHANGED lastCheckout
     ELSE IF ~found
       THEN \* throw new Error("Subscription or address not found")
            /\ agentRun' = JobNotFoundUpdate(inserted, runId)
            /\ job' = JobIdle
            /\ UNCHANGED lastCheckout
     ELSE
       LET r == ExecuteCheckoutBegin(inserted, JobProvidedRunId(runId), NoId,
                                     runId, fault) IN
       CASE r.status = "thrown" ->
              /\ agentRun' = JobCatchUpdate(r.runs, runId)
              /\ job' = JobIdle
              /\ lastCheckout' = CheckoutRecord("job", JobProvidedRunId(runId), r, fault)
         [] r.status = "failed" ->
              \* executeCheckout returned success = false; the job goes on
              /\ agentRun' = JobDoneUpdate(r.runs, runId)
              /\ job' = JobIdle
              /\ lastCheckout' = CheckoutRecord("job", JobProvidedRunId(runId), r, fault)
         [] OTHER ->
              /\ agentRun' = r.runs
              /\ job' = [pc |-> "checkout", runId |-> runId, type |-> type,
                         run |-> r.run]
              /\ UNCHANGED lastCheckout
  /\ UNCHANGED <<billingRan, env, now, subscriptionIntent, address, subscription,
                 stripeCustomer, stripeFee, invoiceItems, chat, trpc, sweep>>
  /\ UNCHANGED <<order, webhook, cron, bridge, proration, poll>>
  /\ UNCHANGED <<payment, immediate, sweepB, client>>

\* planWithProductDiscovery / analyzeProductSubscriptionCapability return
\* (whatever their result says) or throw.
JobAgentReturns(throws) ==
  /\ job.pc = "running"
  /\ agentRun' = IF throws THEN JobCatchUpdate(agentRun, job.runId)
                           ELSE JobDoneUpdate(agentRun, job.runId)
  /\ job' = JobIdle
  /\ UNCHANGED <<billingRan, env, now, subscriptionIntent, address, subscription,
                 stripeCustomer, stripeFee, invoiceItems, chat, trpc, sweep,
                 lastCheckout>>
  /\ UNCHANGED <<order, webhook, cron, bridge, proration, poll>>
  /\ UNCHANGED <<payment, immediate, sweepB, client>>

JobCheckoutReturns(fault) ==
  /\ job.pc = "checkout"
  /\ LET r == ExecuteCheckoutFinish(agentRun, job.run, fault) IN
     /\ agentRun' = JobDoneUpdate(r.runs, job.runId)
     /\ lastCheckout' = CheckoutRecord("job", JobProvidedRunId(job.runId), r, fault)
  /\ job' = JobIdle
  /\ UNCHANGED <<billingRan, env, now, subscriptionIntent, address, subscription,
                 stripeCustomer, stripeFee, invoiceItems, chat, trpc, sweep>>
  /\ UNCHANGED <<order, webhook, cron, bridge, proration, poll>>
  /\ UNCHANGED <<payment, immediate, sweepB, client>>

\* ------------------------------------------------------------------------
\* Status polling (GET /api/agents/status, useAgentJob)
\* ------------------------------------------------------------------------
\* "status" of the status response
RunStatus(run) ==
  IF run.endedAt # NULL
    THEN IF run.phase = "failed" THEN "failed" ELSE "done"
    ELSE "running"

\* useAgentJob(runId): the effect starts polling
UseAgentJob(runId) ==
  /\ runId # 0
  /\ poll.runId = 0
  /\ poll' = [poll EXCEPT !.runId = runId, !.isPolling = TRUE]
  /\ UNCHANGED <<billingRan, env, now, subscriptionIntent, address, subscription,
                 agentRun, stripeCustomer, stripeFee, invoiceItems, chat, job,
                 trpc, sweep, lastCheckout, order, webhook, cron, bridge,
                 proration>>
  /\ UNCHANGED <<payment, immediate, sweepB, client>>

\* one pollStatus: the status request, its response, and the hook's
\* reaction (a response that is not ok, or a final status, clears the
\* interval)
PollStatus ==
  /\ poll.isPolling
  /\ LET n == IF poll.n < MaxPolls THEN poll.n + 1 ELSE poll.n IN
     IF poll.runId \notin RunIds
       THEN poll' = [poll EXCEPT !.status = 404, !.answer = "error",
                                 !.isPolling = FALSE, !.n = n]
       ELSE LET status == RunStatus(agentRun[poll.runId]) IN
            poll' = [poll EXCEPT !.status = 200, !.answer = status,
                                 !.isPolling = status \notin {"done", "failed"},
                                 !.n = n]
  /\ UNCHANGED <<billingRan, env, now, subscriptionIntent, address, subscription,
                 agentRun, stripeCustomer, stripeFee, invoiceItems, chat, job,
                 trpc, sweep, lastCheckout, order, webhook, cron, bridge,
                 proration>>
  /\ UNCHANGED <<payment, immediate, sweepB, client>>

\* ------------------------------------------------------------------------
\* tRPC agent.startCheckout (src/server/api/routers/agent.ts)
\* ------------------------------------------------------------------------
TrpcIdle == [pc |-> "idle", run |-> 0]

TrpcStartCheckout(i, a, fault) ==
  /\ trpc.pc = "idle"
  /\ Len(agentRun) < MaxRuns
  /\ IF a \notin address
       THEN /\ trpc' = TrpcIdle
            /\ UNCHANGED <<agentRun, lastCheckout>>
       ELSE LET r == ExecuteCheckoutBegin(agentRun, 0, i, 0, fault) IN
            /\ agentRun' = r.runs
            /\ IF r.status = "inflight"
                 THEN /\ trpc' = [pc |-> "checkout", run |-> r.run]
                      /\ UNCHANGED lastCheckout
                 ELSE /\ trpc' = TrpcIdle
                      /\ lastCheckout' = CheckoutRecord("trpc", 0, r, fault)
  /\ UNCHANGED <<billingRan, env, now, subscriptionIntent, address, subscription,
                 stripeCustomer, stripeFee, invoiceItems, chat, job, sweep>>
  /\ UNCHANGED <<order, webhook, cron, bridge, proration, poll>>
  /\ UNCHANGED <<payment, immediate, sweepB, client>>

TrpcCheckoutReturns(fault) ==
  /\ trpc.pc = "checkout"
  /\ LET r == ExecuteCheckoutFinish(agentRun, trpc.run, fault) IN
     /\ agentRun' = r.runs
     /\ lastCheckout' = CheckoutRecord("trpc", 0, r, fault)
     /\ trpc' = TrpcIdle
  /\ UNCHANGED <<billingRan, env, now, subscriptionIntent, address, subscription,
                 stripeCustomer, stripeFee, invoiceItems, chat, job, sweep>>
  /\ UNCHANGED <<order, webhook, cron, bridge, proration, poll>>
  /\ UNCHANGED <<payment, immediate, sweepB, client>>

\* ------------------------------------------------------------------------
\* Webhook reconciler (src/app/api/webhooks/stripe/route.ts).  The route
\* imports the stripe module statically: it serves only with stripeKey set.
\* ------------------------------------------------------------------------
IntentOrder == <<"i1", "i2", "i3">>

\* what an event says: the user of the billing vehicle or customer, the
\* invoice, the reported status, metadata.subscriptionIntentId
EventObject(user, invoice, status, ref) ==
  [user |-> user, invoice |-> invoice, status |-> status, ref |-> ref]

\* n counts the requests answered; delivered and failed are history: the
\* events dispatched so far, and the items whose processor call threw
\* while the last event was handled
NoWebhook ==
  [n |-> 0, status |-> 0, signature |-> "none", type |-> "none",
   object |-> EventObject(NoId, NoId, "none", NoId), delivered |-> {},
   failed |-> {}]

\* POST up to the dispatch: the route module loads, the signature is
\* present, the secret is configured and constructEvent accepts
Dispatched ==
  /\ env.stripeKey
  /\ env.webhookSecret
  /\ webhook.n < MaxEvents

\* the response of POST after the handler of a verified event has run
Respond(status, type, object, failed) ==
  [n |-> webhook.n + 1, status |-> status, signature |-> "valid",
   type |-> type, object |-> object,
   delivered |-> webhook.delivered \cup {<<type, object>>}, failed |-> failed]

Signatures == {"missing", "invalid", "valid"}

AnswerOk(sig) == 200

\* the status of a request that is answered before any dispatch
RejectionStatus(sig) ==
  IF ~env.stripeKey THEN 500          \* the route module fails to load
  ELSE IF sig = "missing" THEN 400
  ELSE IF ~env.webhookSecret THEN 500
  ELSE 400

\* POST for a request that is not dispatched: no signature, no secret, or
\* constructEvent throws
WebhookRejected(sig) ==
  /\ webhook.n < MaxEvents
  /\ sig # "valid" \/ ~env.webhookSecret \/ ~env.stripeKey
  /\ webhook' = [webhook EXCEPT !.n = @ + 1, !.status = RejectionStatus(sig),
                                 !.signature = sig, !.type = "none",
                                 !.object = NoWebhook.object, !.failed = {}]
  /\ UNCHANGED <<billingRan, env, now, subscriptionIntent, address, subscription,
                 agentRun, stripeCustomer, stripeFee, invoiceItems, chat, job,
                 trpc, sweep, lastCheckout, order>>
  /\ UNCHANGED <<cron, bridge, proration, poll>>
  /\ UNCHANGED <<payment, immediate, sweepB, client>>

\* handleCheckoutSessionCompleted, for a subscription-mode session of user
\* u: insert the stripe_fee row unless the session's vehicle is already
\* stored.  One billing vehicle per user is modelled; the processor sends
\* the event for a customer it knows.
HandleCheckoutSessionCompleted(u) ==
  /\ Dispatched
  /\ u \in stripeCustomer
  /\ stripeFee' = IF stripeFee[u] = "none"
                    THEN [stripeFee EXCEPT ![u] = "active"]
                    ELSE stripeFee
  /\ webhook' = Respond(200, "checkout.session.completed",
                        EventObject(u, NoId, "none", NoId), {})
  /\ UNCHANGED <<billingRan, env, now, subscriptionIntent, address, subscription, agentRun,
                 stripeCustomer, invoiceItems, chat, job, trpc, sweep,
                 lastCheckout, order>>
  /\ UNCHANGED <<cron, bridge, proration, poll>>
  /\ UNCHANGED <<payment, immediate, sweepB, client>>

\* findFirst(intentId = i, phase = "done", orderBy createdAt desc): run ids
\* are allocated in creation order; 0 when there is none
SuccessfulCheckout(i) ==
  LET done == {r \in RunIds : agentRun[r].intentId = i /\ agentRun[r].phase = "done"}
  IN IF done = {} THEN 0 ELSE CHOOSE r \in done : \A q \in done : q <= r

ExistingSubscription(i) ==
  \E s \in SubIds : subscription[s].status # "absent" /\ subscription[s].intentId = i

AppendReachedIgnoringLedger(u, i) ==
  /\ IntentOwner[i] = u
  /\ subscriptionIntent[i].status = "active"
  /\ SuccessfulCheckout(i) # 0
  /\ OrZero(subscriptionIntent[i].maxPriceCents) # 0

\* the loop body of handleSubscriptionCreated reaches the append for intent i
AppendReached(u, i) ==
  /\ IntentOwner[i] = u
  /\ subscriptionIntent[i].status = "active"
  /\ SuccessfulCheckout(i) # 0
  /\ ~ExistingSubscription(i)
  /\ OrZero(subscriptionIntent[i].maxPriceCents) # 0

\* ... and the append creates the invoice item
PendingCharge(u, i, failing) ==
  /\ AppendReached(u, i)
  /\ ~AppendThrows(u, i \notin failing)

RECURSIVE AppendPending(_, _, _, _)
AppendPending(items, u, failing, k) ==
  IF k > Len(IntentOrder) THEN items
  ELSE LET i == IntentOrder[k] IN
       AppendPending(
         IF PendingCharge(u, i, failing)
           THEN AppendInvoiceItemForSubscription(items, u, i,
                  OrZero(subscriptionIntent[i].maxPriceCents),
                  subscriptionIntent[i].cadenceDays, SuccessfulCheckout(i))
           ELSE items,
         u, failing, k + 1)

\* handleSubscriptionCreated for a service_fee vehicle of user u; failing:
\* the intents for which the processor call fails
HandleSubscriptionCreated(u, failing) ==
  /\ Dispatched
  /\ u \in stripeCustomer
  /\ webhook' = Respond(200, "customer.subscription.created",
                        EventObject(u, NoId, "none", NoId),
                        {i \in IntentIds : AppendReached(u, i)
                                            /\ AppendThrows(u, i \notin failing)})
  /\ LET items == AppendPending(invoiceItems, u, failing, 1) IN
     /\ Len(items) <= MaxItems
     /\ invoiceItems' = items
  /\ billingRan' = billingRan \cup
       {SuccessfulCheckout(i) : i \in {j \in IntentIds : AppendReached(u, j)}}
  /\ UNCHANGED <<env, now, subscriptionIntent, address, subscription, agentRun,
                 stripeCustomer, stripeFee, chat, job, trpc, sweep, lastCheckout,
                 order>>
  /\ UNCHANGED <<cron, bridge, proration, poll>>
  /\ UNCHANGED <<payment, immediate, sweepB, client>>

\* ------------------------------------------------------------------------
\* Intent registry and subscription ledger (src/server/db/queries.ts)
\* ------------------------------------------------------------------------
SubOrder == <<"s1", "s2", "s3">>

AbsentSubscription ==
  [userId |-> NoId, intentId |-> NoId, addressId |-> NoId,
   renewalFrequencyDays |-> 0, lastPriceCents |-> NULL, status |-> "absent",
   nextRenewalAt |-> NULL, canceledAt |-> NULL, lastPurchaseAt |-> NULL]

\* createSubscription: the row it inserts.  lastPurchaseAt is a history
\* field: the time of the purchase the row was last written for.
CreateSubscription(userId, intentId, renewalFrequencyDays, addressId, lastPriceCents) ==
  [userId |-> userId, intentId |-> intentId, addressId |-> addressId,
   renewalFrequencyDays |-> renewalFrequencyDays,
   lastPriceCents |-> lastPriceCents, status |-> "active",
   nextRenewalAt |-> now + renewalFrequencyDays, canceledAt |-> NULL,
   lastPurchaseAt |-> now]

KeepSubscriptionStatus(subs, id, status) == subs

\* updateSubscriptionStatus({ id, status })
UpdateSubscriptionStatus(subs, id, status) ==
  [subs EXCEPT ![id].status = IF subs[id].status = "absent" THEN "absent" ELSE status]

\* deleteSubscriptionIntent: soft delete of the intent and of the linked
\* subscriptions
DeleteSubscriptionIntent(i) ==
  /\ subscriptionIntent' = [subscriptionIntent EXCEPT
                              ![i].status = "canceled", ![i].canceledAt = now]
  /\ subscription' = [s \in SubIds |->
       IF subscription[s].status # "absent" /\ subscription[s].intentId = i
         THEN [subscription[s] EXCEPT !.status = "canceled", !.canceledAt = now]
         ELSE subscription[s]]
  /\ UNCHANGED <<billingRan, env, now, address, agentRun, stripeCustomer, stripeFee,
                 invoiceItems, chat, job, trpc, sweep, lastCheckout>>
  /\ UNCHANGED <<order, webhook, cron, bridge, proration, poll>>
  /\ UNCHANGED <<payment, immediate, sweepB, client>>

\* updateSubscriptionIntent({ id, updates }): the fields of updates
\* replace the fields of the row
UpdateSubscriptionIntent(intents, id, updates) ==
  [intents EXCEPT ![id] = [f \in DOMAIN intents[id] |->
     IF f \in DOMAIN updates THEN updates[f] ELSE intents[id][f]]]

\* the update syncIntentToSubscriptions writes to one linked subscription
SyncedSubscription(intent, sub) ==
  LET withStatus ==
        IF intent.status \in {"active", "paused", "canceled"}
          THEN [sub EXCEPT !.status = intent.status,
                           !.canceledAt =
                             IF intent.status = "canceled"
                               THEN (IF intent.canceledAt # NULL
                                       THEN intent.canceledAt ELSE now)
                               ELSE sub.canceledAt]
          ELSE sub
      withFrequency ==
        IF intent.cadenceDays # sub.renewalFrequencyDays
          THEN [withStatus EXCEPT !.renewalFrequencyDays = intent.cadenceDays]
          ELSE withStatus
  IN IF OrZero(intent.maxPriceCents) # 0 /\ intent.maxPriceCents # sub.lastPriceCents
       THEN [withFrequency EXCEPT !.lastPriceCents = intent.maxPriceCents]
       ELSE withFrequency

\* syncIntentToSubscriptions(intentId)
SyncIntentToSubscriptions(intents, subs, i) ==
  [s \in SubIds |->
     IF subs[s].status # "absent" /\ subs[s].intentId = i
       THEN SyncedSubscription(intents[i], subs[s])
       ELSE subs[s]]

\* subscription router: updateIntent, pauseIntent, resumeIntent
UpdateIntent(i, updates) ==
  /\ subscriptionIntent' = UpdateSubscriptionIntent(subscriptionIntent, i, updates)
  /\ subscription' = SyncIntentToSubscriptions(subscriptionIntent', subscription, i)
  /\ UNCHANGED <<billingRan, env, now, address, agentRun, stripeCustomer, stripeFee,
                 invoiceItems, chat, job, trpc, sweep, lastCheckout>>
  /\ UNCHANGED <<order, webhook, cron, bridge, proration, poll>>
  /\ UNCHANGED <<payment, immediate, sweepB, client>>

\* chat tools pauseSubscription (status "paused") and resumeSubscription
\* (status "active"): updateSubscriptionIntent alone, the linked
\* subscriptions are not written
SetIntentStatusTool(i, status) ==
  /\ subscriptionIntent' =
       UpdateSubscriptionIntent(subscriptionIntent, i, [status |-> status])
  /\ UNCHANGED subscription
  /\ UNCHANGED <<billingRan, env, now, address, agentRun, stripeCustomer, stripeFee,
                 invoiceItems, chat, job, trpc, sweep, lastCheckout, order,
                 webhook, cron, bridge, proration, poll, payment, immediate,
                 sweepB, client>>

PauseSubscriptionTool(i) == SetIntentStatusTool(i, "paused")

ResumeSubscriptionTool(i) == SetIntentStatusTool(i, "active")

\* subscription router: updateStatus
UpdateStatus(s, status) ==
  /\ subscription[s].status # "absent"
  /\ subscription' = UpdateSubscriptionStatus(subscription, s, status)
  /\ UNCHANGED subscriptionIntent
  /\ UNCHANGED <<billingRan, env, now, address, agentRun, stripeCustomer, stripeFee,
                 invoiceItems, chat, job, trpc, sweep, lastCheckout, order,
                 webhook, cron, bridge, proration, poll, payment, immediate,
                 sweepB, client>>

\* updateSubscription({ id, updates }): no row, no change
UpdateSubscription(subs, id, updates) ==
  IF subs[id].status = "absent" THEN subs
  ELSE [subs EXCEPT ![id] = [f \in DOMAIN subs[id] |->
          IF f \in DOMAIN updates THEN updates[f] ELSE subs[id][f]]]

\* subscription router: updateSubscription
UpdateSubscriptionDetails(s, updates) ==
  /\ subscription[s].status # "absent"
  /\ subscription' = UpdateSubscription(subscription, s, updates)
  /\ UNCHANGED <<billingRan, env, now, subscriptionIntent, address, agentRun,
                 stripeCustomer, stripeFee, invoiceItems, chat, job, trpc, sweep,
                 lastCheckout>>
  /\ UNCHANGED <<order, webhook, cron, bridge, proration, poll>>
  /\ UNCHANGED <<payment, immediate, sweepB, client>>

\* subscription router: createSubscription, for the user's intent i
ActivateSubscription(s, i, renewalFrequencyDays, lastPriceCents) ==
  /\ subscription[s].status = "absent"
  /\ subscription' = [subscription EXCEPT ![s] =
       CreateSubscription(IntentOwner[i], i, renewalFrequencyDays, "a1",
                          lastPriceCents)]
  /\ UNCHANGED <<billingRan, env, now, subscriptionIntent, address, agentRun,
                 stripeCustomer, stripeFee, invoiceItems, chat, job, trpc, sweep,
                 lastCheckout>>
  /\ UNCHANGED <<order, webhook, cron, bridge, proration, poll>>
  /\ UNCHANGED <<payment, immediate, sweepB, client>>

\* ------------------------------------------------------------------------
\* Webhook reconciler: invoices and the billing vehicle
\* (src/app/api/webhooks/stripe/route.ts)
\* ------------------------------------------------------------------------
\* createOrder: the row it inserts
OrderRow(subscriptionId, invoice) ==
  [subscriptionId |-> subscriptionId, invoice |-> invoice]

\* order.subscriptionId references subscription.id: the insert is rejected
\* when the value is not the id of a subscription row
CreateOrderThrows(subscriptionId) ==
  ~(subscriptionId \in SubIds /\ subscription[subscriptionId].status # "absent")

AlwaysReceived(threw) == 200

\* the try/catch around the dispatch in POST: { received: true } when the
\* handler returns, 500 when an exception escapes it
HandlerStatus(threw) == IF threw THEN 500 ELSE 200

\* handleInvoicePaymentSucceeded for invoice inv with
\* metadata.subscriptionIntentId = ref (NoId: no such metadata).  The
\* payment table is not modelled.  A throw of createOrder reaches the catch
\* of POST: status 500.
HandleInvoicePaymentSucceeded(inv, ref) ==
  /\ Dispatched
  /\ IF ref = NoId
       THEN /\ order' = order
            /\ webhook' = Respond(200, "invoice.payment_succeeded",
                                  EventObject(NoId, inv, "none", ref), {})
       ELSE IF CreateOrderThrows(ref)
         THEN /\ order' = order
              /\ webhook' = Respond(HandlerStatus(TRUE), "invoice.payment_succeeded",
                                    EventObject(NoId, inv, "none", ref), {ref})
         ELSE /\ Len(order) < MaxOrders
              /\ order' = Append(order, OrderRow(ref, inv))
              /\ webhook' = Respond(200, "invoice.payment_succeeded",
                                    EventObject(NoId, inv, "none", ref), {})
  /\ UNCHANGED <<billingRan, env, now, subscriptionIntent, address, subscription,
                 agentRun, stripeCustomer, stripeFee, invoiceItems, chat, job,
                 trpc, sweep, lastCheckout>>
  /\ UNCHANGED <<cron, bridge, proration, poll>>
  /\ UNCHANGED <<payment, immediate, sweepB, client>>

\* createPayment: the row it inserts
PaymentRow(subscriptionId, stripeInvoiceId, status) ==
  [subscriptionId |-> subscriptionId, stripeInvoiceId |-> stripeInvoiceId,
   status |-> status]

\* getPaymentByStripeInvoiceId followed by updatePaymentStatus: the first
\* row of the invoice, if there is one, gets the status
UpdatePaymentOfInvoice(rows, inv, status) ==
  LET found == {k \in 1..Len(rows) : rows[k].stripeInvoiceId = inv} IN
  IF found = {} THEN rows
  ELSE LET k == CHOOSE m \in found : \A o \in found : m <= o IN
       [rows EXCEPT ![k].status = status]

\* payment.subscriptionId references subscription.id: the insert is
\* rejected when the value is not the id of a subscription row
CreatePaymentThrows(subscriptionId) ==
  ~(subscriptionId \in SubIds /\ subscription[subscriptionId].status # "absent")

\* finalizedInvoice.id
FinalizedInvoiceId == "in1"

\* chargeImmediatelyForOrder.  last is "threw" when the customer lookup or
\* a processor call threw, "rejected" when the invoice was finalized and
\* createPayment threw, "returned" otherwise; finalized counts the
\* invoices finalized on the processor side.
ChargeImmediatelyForOrder(userId, subscriptionIntentId, stripeOk) ==
  /\ immediate.n < MaxCalls
  /\ IF userId \notin stripeCustomer \/ ~stripeOk
       THEN /\ immediate' = [immediate EXCEPT !.n = @ + 1, !.last = "threw",
                                              !.subscriptionId = subscriptionIntentId]
            /\ UNCHANGED payment
     ELSE IF CreatePaymentThrows(subscriptionIntentId)
       THEN /\ immediate' = [n |-> immediate.n + 1, last |-> "rejected",
                             subscriptionId |-> subscriptionIntentId,
                             finalized |-> immediate.finalized + 1]
            /\ UNCHANGED payment
     ELSE   /\ immediate' = [n |-> immediate.n + 1, last |-> "returned",
                             subscriptionId |-> subscriptionIntentId,
                             finalized |-> immediate.finalized + 1]
            /\ payment' = Append(payment,
                 PaymentRow(subscriptionIntentId, FinalizedInvoiceId, "pending"))
  /\ UNCHANGED <<billingRan, env, now, subscriptionIntent, address, subscription,
                 agentRun, stripeCustomer, stripeFee, invoiceItems, chat, job, trpc,
                 sweep, lastCheckout, order, webhook, cron, bridge, proration, poll,
                 sweepB, client>>

\* handleInvoicePaymentFailed for invoice inv with
\* metadata.subscriptionIntentId = ref (NoId: no such metadata): the
\* payment row is marked failed and the intent gets status "error"; an
\* update that matches no intent row changes nothing
HandleInvoicePaymentFailed(inv, ref) ==
  /\ Dispatched
  /\ payment' = UpdatePaymentOfInvoice(payment, inv, "failed")
  /\ subscriptionIntent' =
       IF ref \in IntentIds
         THEN UpdateSubscriptionIntent(subscriptionIntent, ref, [status |-> "error"])
         ELSE subscriptionIntent
  /\ webhook' = Respond(200, "invoice.payment_failed",
                        EventObject(NoId, inv, "none", ref), {})
  /\ UNCHANGED <<billingRan, env, now, address, subscription, agentRun,
                 stripeCustomer, stripeFee, invoiceItems, chat, job, trpc, sweep,
                 lastCheckout, order, cron, bridge, proration, poll, immediate,
                 sweepB, client>>

\* stripe.invoiceItems.create of handleInvoiceCreated, for subscription s
InvoiceLine(u, s, inv) ==
  [userId |-> u, subscriptionIntentId |-> subscription[s].intentId,
   orderId |-> "",
   amount |-> ProratedTotalCents(subscription[s].lastPriceCents,
                                 subscription[s].renewalFrequencyDays),
   productPriceCents |-> subscription[s].lastPriceCents,
   cadenceDays |-> subscription[s].renewalFrequencyDays,
   subscriptionId |-> s, invoice |-> inv, attempt |-> 0]

\* the loop of handleInvoiceCreated reaches invoiceItems.create for s
LineReached(u, s) ==
  /\ subscription[s].userId = u
  /\ subscription[s].status = "active"
  /\ OrZero(subscription[s].lastPriceCents) # 0
  /\ subscription[s].intentId \in IntentIds

\* the lines on the invoice when the processor call for s throws: the
\* throw leaves the loop for the one catch around the whole handler
LinesAfterThrow(items, u, s, inv) == items

\* the loop of handleInvoiceCreated from the k-th subscription on; failing:
\* the subscriptions for which the processor call throws
RECURSIVE AppendLines(_, _, _, _, _)
AppendLines(items, u, inv, failing, k) ==
  IF k > Len(SubOrder) THEN items
  ELSE LET s == SubOrder[k] IN
       IF ~LineReached(u, s) THEN AppendLines(items, u, inv, failing, k + 1)
       ELSE IF s \in failing THEN LinesAfterThrow(items, u, s, inv)
       ELSE AppendLines(Append(items, InvoiceLine(u, s, inv)), u, inv,
                        failing, k + 1)

\* handleInvoiceCreated for invoice inv of the billing vehicle of user u.
\* The catch swallows the error: the response is 200.
HandleInvoiceCreated(u, inv, failing) ==
  /\ Dispatched
  /\ LET items == IF stripeFee[u] = "none" THEN invoiceItems
                  ELSE AppendLines(invoiceItems, u, inv, failing, 1) IN
     /\ Len(items) <= MaxLines
     /\ invoiceItems' = items
  /\ webhook' = Respond(200, "invoice.created",
                        EventObject(u, inv, "none", NoId),
                        IF stripeFee[u] = "none" THEN {}
                        ELSE {s \in failing : LineReached(u, s)})
  /\ UNCHANGED <<billingRan, env, now, subscriptionIntent, address, subscription,
                 agentRun, stripeCustomer, stripeFee, chat, job, trpc, sweep,
                 lastCheckout, order>>
  /\ UNCHANGED <<cron, bridge, proration, poll>>
  /\ UNCHANGED <<payment, immediate, sweepB, client>>

\* the loop of handleSubscriptionDeleted over the user's subscriptions
RECURSIVE CancelUserSubscriptions(_, _, _)
CancelUserSubscriptions(subs, u, k) ==
  IF k > Len(SubOrder) THEN subs
  ELSE CancelUserSubscriptions(
         IF subs[SubOrder[k]].userId = u
           THEN UpdateSubscriptionStatus(subs, SubOrder[k], "canceled")
           ELSE subs,
         u, k + 1)

\* handleSubscriptionDeleted for the billing vehicle of user u
HandleSubscriptionDeleted(u) ==
  /\ Dispatched
  /\ IF stripeFee[u] = "none"
       THEN UNCHANGED <<stripeFee, subscription>>
       ELSE /\ stripeFee' = [stripeFee EXCEPT ![u] = "canceled"]
            /\ subscription' = CancelUserSubscriptions(subscription, u, 1)
  /\ webhook' = Respond(200, "customer.subscription.deleted",
                        EventObject(u, NoId, "canceled", NoId), {})
  /\ UNCHANGED <<billingRan, env, now, subscriptionIntent, address, agentRun,
                 stripeCustomer, invoiceItems, chat, job, trpc, sweep,
                 lastCheckout, order>>
  /\ UNCHANGED <<cron, bridge, proration, poll>>
  /\ UNCHANGED <<payment, immediate, sweepB, client>>

\* some of the values of Stripe.Subscription.status
ReportedStatuses == {"active", "past_due", "canceled", "unpaid"}

\* the status handleSubscriptionUpdated stores for a reported status
StoredStatus(status) ==
  IF status = "past_due" THEN "past_due"
  ELSE IF status = "canceled" THEN "canceled"
  ELSE "active"

\* handleSubscriptionUpdated for the billing vehicle of user u
HandleSubscriptionUpdated(u, status) ==
  /\ Dispatched
  /\ stripeFee' = IF stripeFee[u] = "none" THEN stripeFee
                  ELSE [stripeFee EXCEPT ![u] = StoredStatus(status)]
  /\ webhook' = Respond(200, "customer.subscription.updated",
                        EventObject(u, NoId, status, NoId), {})
  /\ UNCHANGED <<billingRan, env, now, subscriptionIntent, address, subscription,
                 agentRun, stripeCustomer, invoiceItems, chat, job, trpc, sweep,
                 lastCheckout, order>>
  /\ UNCHANGED <<cron, bridge, proration, poll>>
  /\ UNCHANGED <<payment, immediate, sweepB, client>>

\* ------------------------------------------------------------------------
\* Renewal sweep: POST /api/renewals/due
\* ------------------------------------------------------------------------
NoResults == [total |-> 0, processed |-> 0, succeeded |-> 0, failed |-> 0,
              errors |-> <<>>]

\* n counts the sweeps started; visited and started are history: the
\* outcome of every item visited, and the items a checkout was started for
SweepIdle == [pc |-> "idle", n |-> 0, due |-> <<>>, idx |-> 0, run |-> 0,
              fullSub |-> AbsentSubscription, cadenceDays |-> 0,
              results |-> NoResults, visited |-> <<>>, started |-> <<>>]

\* the date bound of the due query: tomorrow = now + 1 day
Tomorrow(t) == t + 1

IsDueAnyStatus(row, t) ==
  /\ row.status # "absent"
  /\ row.nextRenewalAt # NULL
  /\ row.nextRenewalAt <= Tomorrow(t)

\* the where-clause of getSubscriptionsDueForRenewal
IsDue(row, t) ==
  /\ row.status = "active"
  /\ row.nextRenewalAt # NULL
  /\ row.nextRenewalAt <= Tomorrow(t)

\* getSubscriptionsDueForRenewal
GetSubscriptionsDueForRenewal ==
  SelectSeq(SubOrder, LAMBDA s : IsDue(subscription[s], now))

\* moving on to the next item of the for-loop, or out of the loop
NextItem(sw) ==
  [sw EXCEPT !.idx = sw.idx + 1, !.run = 0,
             !.pc = IF sw.idx + 1 > Len(sw.due) THEN "idle" ELSE "loop"]

DropError(results, sub, msg) == results

\* results.errors.push(...)
PushError(results, sub, msg) ==
  [results EXCEPT !.errors = Append(results.errors, [sub |-> sub, msg |-> msg])]

Visit(sw, outcome) == [sw EXCEPT !.visited = Append(sw.visited, outcome)]

\* the last request of the sweep endpoint: status 401 when it was
\* rejected, 200 for an answered preview, 0 while a POST is processed
NoCron == [method |-> "none", key |-> "absent", status |-> 0, count |-> 0]

\* the value of searchParams.get("key"): null ("absent") or a string
CronKeys == {"absent", "k1", "k2"}

AnyKey(key) == TRUE

\* the gate of POST and GET passes: outside production, or cronSecret ===
\* CRON_SECRET_KEY (null is not undefined: an absent key never equals an
\* unset secret)
Authorized(key) ==
  \/ ~env.production
  \/ key # "absent" /\ env.cronSecret # "unset" /\ key = env.cronSecret

\* the 401 of POST or GET
SweepRejected(method, key) ==
  /\ env.stripeKey
  /\ ~Authorized(key)
  /\ cron' = [method |-> method, key |-> key, status |-> 401, count |-> 0]
  /\ UNCHANGED <<billingRan, env, now, subscriptionIntent, address, subscription,
                 agentRun, stripeCustomer, stripeFee, invoiceItems, chat, job,
                 trpc, sweep, lastCheckout, order, webhook>>
  /\ UNCHANGED <<bridge, proration, poll>>
  /\ UNCHANGED <<payment, immediate, sweepB, client>>

\* GET /api/renewals/due: the preview of the due subscriptions
SweepPreview(key) ==
  /\ env.stripeKey
  /\ Authorized(key)
  /\ cron' = [method |-> "GET", key |-> key, status |-> 200,
              count |-> Len(GetSubscriptionsDueForRenewal)]
  /\ UNCHANGED <<billingRan, env, now, subscriptionIntent, address, subscription,
                 agentRun, stripeCustomer, stripeFee, invoiceItems, chat, job,
                 trpc, sweep, lastCheckout, order, webhook>>
  /\ UNCHANGED <<bridge, proration, poll>>
  /\ UNCHANGED <<payment, immediate, sweepB, client>>

SweepStart(key) ==
  /\ sweep.pc = "idle"
  /\ env.stripeKey
  /\ Authorized(key)
  /\ cron' = [method |-> "POST", key |-> key, status |-> 0, count |-> 0]
  /\ sweep.n < MaxSweeps
  /\ LET due == GetSubscriptionsDueForRenewal IN
     sweep' = [SweepIdle EXCEPT
                 !.n = sweep.n + 1, !.due = due, !.idx = 1,
                 !.pc = IF Len(due) = 0 THEN "idle" ELSE "loop",
                 !.results = [NoResults EXCEPT !.total = Len(due)]]
  /\ UNCHANGED <<billingRan, env, now, subscriptionIntent, address, subscription, agentRun,
                 stripeCustomer, stripeFee, invoiceItems, chat, job, trpc,
                 lastCheckout>>
  /\ UNCHANGED <<order, webhook>>
  /\ UNCHANGED <<bridge, proration, poll>>
  /\ UNCHANGED <<payment, immediate, sweepB, client>>

\* "Checkout failed" branch of the loop body
RenewalFailed(sw, sub, msg) ==
  [sw EXCEPT !.results = PushError([sw.results EXCEPT !.failed = @ + 1], sub, msg)]

CatchWithoutCount(sw, sub, msg) ==
  [sw EXCEPT !.results = PushError(sw.results, sub, msg)]

\* the per-item catch block
ItemCatch(sw, sub, msg) ==
  [sw EXCEPT !.results = PushError([sw.results EXCEPT !.failed = @ + 1], sub, msg)]

\* "Update next renewal date": now + fullSub.renewalFrequencyDays
NextRenewalAt(fullSub) == now + fullSub.renewalFrequencyDays

SetNextRenewalAt(subs, id, t) ==
  [subs EXCEPT ![id].nextRenewalAt = IF subs[id].status = "absent" THEN NULL ELSE t]

\* history: the checkout of the renewal of subscription id returned success
RecordPurchase(subs, id) ==
  [subs EXCEPT ![id].lastPurchaseAt = IF subs[id].status = "absent" THEN NULL ELSE now]

\* The loop body up to the checkout being in flight.
SweepItemBegin(fault) ==
  /\ sweep.pc = "loop"
  /\ Len(agentRun) < MaxRuns
  /\ LET sub == sweep.due[sweep.idx]
         fullSub == subscription[sub]
         skip(msg) == NextItem(Visit([sweep EXCEPT !.results = PushError(@, sub, msg)],
                                     "skipped"))
     IN
     IF fullSub.status = "absent" \/ fullSub.addressId = NoId
       THEN /\ sweep' = skip("missing address")
            /\ UNCHANGED <<agentRun, subscription, lastCheckout>>
     ELSE IF fullSub.addressId \notin address
       THEN /\ sweep' = skip("address not found")
            /\ UNCHANGED <<agentRun, subscription, lastCheckout>>
     ELSE IF fullSub.intentId \notin IntentIds
       THEN /\ sweep' = skip("intent not found")
            /\ UNCHANGED <<agentRun, subscription, lastCheckout>>
     ELSE
       LET r == ExecuteCheckoutBegin(agentRun, 0, fullSub.intentId, 0, fault)
           sw == [sweep EXCEPT !.started = Append(@, sub)]
       IN
       /\ agentRun' = r.runs
       /\ CASE r.status = "thrown" ->
                 /\ sweep' = NextItem(Visit(ItemCatch(sw, sub, "threw"), "threw"))
                 /\ lastCheckout' = CheckoutRecord("sweep", 0, r, fault)
                 /\ UNCHANGED subscription
            [] r.status = "failed" ->
                 /\ sweep' = NextItem(Visit(RenewalFailed(
                      [sw EXCEPT !.results.processed = @ + 1], sub, "checkout failed"),
                      "failed"))
                 /\ subscription' = UpdateSubscriptionStatus(subscription, sub, "paused")
                 /\ lastCheckout' = CheckoutRecord("sweep", 0, r, fault)
            [] OTHER ->
                 /\ sweep' = [sw EXCEPT !.pc = "checkout", !.run = r.run,
                                        !.fullSub = fullSub,
                                        !.cadenceDays =
                                          subscriptionIntent[fullSub.intentId].cadenceDays]
                 /\ UNCHANGED <<subscription, lastCheckout>>
  /\ UNCHANGED <<billingRan, env, now, subscriptionIntent, address, stripeCustomer,
                 stripeFee, invoiceItems, chat, job, trpc>>
  /\ UNCHANGED <<order, webhook, cron, bridge, proration, poll>>
  /\ UNCHANGED <<payment, immediate, sweepB, client>>

\* The loop body from the checkout's return on.
SweepItemFinish(fault, stripeOk) ==
  /\ sweep.pc = "checkout"
  /\ Len(invoiceItems) < MaxItems
  /\ LET sub == sweep.due[sweep.idx]
         fullSub == sweep.fullSub
         r == ExecuteCheckoutFinish(agentRun, sweep.run, fault)
         sw == [sweep EXCEPT !.results.processed = @ + 1]
         productPriceCents == OrZero(fullSub.lastPriceCents)
     IN
     /\ agentRun' = r.runs
     /\ lastCheckout' = CheckoutRecord("sweep", 0, r, fault)
     /\ billingRan' = IF r.status = "ok" /\ productPriceCents > 0
                        THEN billingRan \cup {r.run} ELSE billingRan
     /\ IF r.status # "ok"
          THEN /\ sweep' = NextItem(Visit(RenewalFailed(sw, sub, "checkout failed"),
                                          "failed"))
               /\ subscription' = UpdateSubscriptionStatus(subscription, sub, "paused")
               /\ UNCHANGED invoiceItems
        ELSE IF productPriceCents > 0 /\ AppendThrows(fullSub.userId, stripeOk)
          THEN \* chargeForCheckout throws: the per-item catch block runs
               /\ sweep' = NextItem(Visit(ItemCatch(sw, sub, "threw"), "threw"))
               /\ subscription' = RecordPurchase(subscription, sub)
               /\ UNCHANGED invoiceItems
        ELSE   /\ invoiceItems' =
                    IF productPriceCents > 0
                      THEN ChargeForCheckout(invoiceItems, fullSub.userId,
                             fullSub.intentId, productPriceCents,
                             sweep.cadenceDays, r.run)
                      ELSE invoiceItems
               /\ subscription' = SetNextRenewalAt(RecordPurchase(subscription, sub),
                                                   sub, NextRenewalAt(fullSub))
               /\ sweep' = NextItem(Visit(
                    [sw EXCEPT !.results.succeeded = @ + 1], "succeeded"))
  /\ UNCHANGED <<env, now, subscriptionIntent, address, stripeCustomer,
                 stripeFee, chat, job, trpc>>
  /\ UNCHANGED <<order, webhook, cron, bridge, proration, poll>>
  /\ UNCHANGED <<payment, immediate, sweepB, client>>

\* A second invocation of POST /api/renewals/due, running while the first
\* is in its loop.  The endpoint takes no lock and keeps no marker of a
\* sweep in progress.
SweepBStart(key) ==
  /\ sweepB.pc = "idle"
  /\ sweepB.n = 0
  /\ env.stripeKey
  /\ Authorized(key)
  /\ LET due == GetSubscriptionsDueForRenewal IN
     sweepB' = [SweepIdle EXCEPT
                  !.n = 1, !.due = due, !.idx = 1,
                  !.pc = IF Len(due) = 0 THEN "idle" ELSE "loop",
                  !.results = [NoResults EXCEPT !.total = Len(due)]]
  /\ UNCHANGED <<billingRan, env, now, subscriptionIntent, address, subscription,
                 agentRun, stripeCustomer, stripeFee, invoiceItems, chat, job,
                 trpc, sweep, lastCheckout, order, webhook, cron, bridge,
                 proration, poll, payment, immediate, client>>

\* One whole iteration of the second invocation's loop
SweepBItem(begin, finish, stripeOk) ==
  /\ sweepB.pc = "loop"
  /\ Len(agentRun) < MaxRuns
  /\ Len(invoiceItems) < MaxItems
  /\ LET sub == sweepB.due[sweepB.idx]
         fullSub == subscription[sub]
         skip(msg) == NextItem(Visit([sweepB EXCEPT !.results = PushError(@, sub, msg)],
                                     "skipped"))
     IN
     IF fullSub.status = "absent" \/ fullSub.addressId = NoId
       THEN /\ sweepB' = skip("missing address")
            /\ UNCHANGED <<agentRun, subscription, invoiceItems, billingRan>>
     ELSE IF fullSub.addressId \notin address
       THEN /\ sweepB' = skip("address not found")
            /\ UNCHANGED <<agentRun, subscription, invoiceItems, billingRan>>
     ELSE IF fullSub.intentId \notin IntentIds
       THEN /\ sweepB' = skip("intent not found")
            /\ UNCHANGED <<agentRun, subscription, invoiceItems, billingRan>>
     ELSE
       LET b == ExecuteCheckoutBegin(agentRun, 0, fullSub.intentId, 0, begin)
           r == IF b.status = "inflight"
                  THEN ExecuteCheckoutFinish(b.runs, b.run, finish) ELSE b
           sw == [sweepB EXCEPT !.started = Append(@, sub), !.fullSub = fullSub,
                                !.run = r.run]
           counted == [sw EXCEPT !.results.processed = @ + 1]
           productPriceCents == OrZero(fullSub.lastPriceCents)
       IN
       /\ agentRun' = r.runs
       /\ billingRan' = IF r.status = "ok" /\ productPriceCents > 0
                          THEN billingRan \cup {r.run} ELSE billingRan
       /\ IF r.status = "thrown"
            THEN /\ sweepB' = NextItem(Visit(ItemCatch(sw, sub, "threw"), "threw"))
                 /\ UNCHANGED <<subscription, invoiceItems>>
          ELSE IF r.status = "failed"
            THEN /\ sweepB' = NextItem(Visit(RenewalFailed(counted, sub,
                                                           "checkout failed"), "failed"))
                 /\ subscription' = UpdateSubscriptionStatus(subscription, sub, "paused")
                 /\ UNCHANGED invoiceItems
          ELSE IF productPriceCents > 0 /\ AppendThrows(fullSub.userId, stripeOk)
            THEN /\ sweepB' = NextItem(Visit(ItemCatch(counted, sub, "threw"), "threw"))
                 /\ subscription' = RecordPurchase(subscription, sub)
                 /\ UNCHANGED invoiceItems
          ELSE   /\ invoiceItems' =
                      IF productPriceCents > 0
                        THEN ChargeForCheckout(invoiceItems, fullSub.userId,
                               fullSub.intentId, productPriceCents,
                               subscriptionIntent[fullSub.intentId].cadenceDays, r.run)
                        ELSE invoiceItems
                 /\ subscription' = SetNextRenewalAt(RecordPurchase(subscription, sub),
                                                     sub, NextRenewalAt(fullSub))
                 /\ sweepB' = NextItem(Visit(
                      [counted EXCEPT !.results.succeeded = @ + 1], "succeeded"))
  /\ UNCHANGED <<env, now, subscriptionIntent, address, stripeCustomer, stripeFee,
                 chat, job, trpc, sweep, lastCheckout, order, webhook, cron, bridge,
                 proration, poll, payment, immediate, client>>

\* the clock
Tick ==
  /\ now < MaxTime
  /\ now' = now + 1
  /\ UNCHANGED <<billingRan, env, subscriptionIntent, address, subscription, agentRun,
                 stripeCustomer, stripeFee, invoiceItems, chat, job, trpc,
                 sweep, lastCheckout>>
  /\ UNCHANGED <<order, webhook, cron, bridge, proration, poll>>
  /\ UNCHANGED <<payment, immediate, sweepB, client>>

\* ------------------------------------------------------------------------
\* Initial states and specifications
\* ------------------------------------------------------------------------
IntentRow(cadenceDays, maxPriceCents) ==
  [status |-> "active", cadenceDays |-> cadenceDays,
   maxPriceCents |-> maxPriceCents, canceledAt |-> NULL]

InitIntents ==
  [i \in IntentIds |-> CASE i = "i1" -> IntentRow(1, NULL)
                         [] i = "i2" -> IntentRow(2, 2000)
                         [] OTHER    -> IntentRow(1, 2000)]

InitStore ==
  /\ now = 0
  /\ subscriptionIntent = InitIntents
  /\ address = AddressIds
  /\ agentRun = <<>>
  /\ invoiceItems = <<>>
  /\ chat = ChatIdle
  /\ job = JobIdle
  /\ trpc = TrpcIdle
  /\ sweep = SweepIdle
  /\ lastCheckout = NoCheckout
  /\ billingRan = {}
  /\ order = <<>>
  /\ webhook = NoWebhook
  /\ cron = NoCron
  /\ bridge = NoBridge
  /\ poll = NoPoll
  /\ payment = <<>>
  /\ immediate = NoImmediate
  /\ sweepB = SweepIdle
  /\ client = NoClient

InitCommon ==
  /\ InitStore
  /\ proration = NoProration

\* Entry points that start a checkout, and the billing-vehicle webhooks
InitRuns ==
  /\ InitCommon
  /\ env \in [stagehand : BOOLEAN, stripeKey : BOOLEAN, webhookSecret : {TRUE},
             production : {FALSE}, cronSecret : {"k1"}]
  /\ subscription = [s \in SubIds |-> AbsentSubscription]
  /\ stripeCustomer = {}
  /\ stripeFee = [u \in UserIds |-> "none"]

ChatIntentInputs == {"i1", "ix"}
AddressInputs == AddressIds \cup {"ax"}
FetchedPrices == {NULL, 2000}

NextRuns ==
  \/ \E u \in {"u1"}, i \in ChatIntentInputs, a \in AddressInputs,
        price \in FetchedPrices, fault \in BeginFaults :
       ChatStartCheckout(u, i, a, price, fault)
  \/ \E fault \in FinishFaults : ChatCheckoutReturns(fault)
  \/ \E stripe \in StripeFaults : ChatBilling(stripe)
  \/ \E type \in JobTypes, found \in BOOLEAN, fault \in BeginFaults :
       JobStart(type, found, fault)
  \/ \E throws \in BOOLEAN : JobAgentReturns(throws)
  \/ \E fault \in FinishFaults : JobCheckoutReturns(fault)
  \/ \E i \in ChatIntentInputs, a \in AddressInputs, fault \in BeginFaults :
       TrpcStartCheckout(i, a, fault)
  \/ \E fault \in FinishFaults : TrpcCheckoutReturns(fault)
  \/ \E u \in UserIds : HandleCheckoutSessionCompleted(u)
  \/ \E u \in UserIds, failing \in SUBSET {"i1"} : HandleSubscriptionCreated(u, failing)

SpecRuns == InitRuns /\ [][NextRuns]_vars

\* The renewal sweep over a populated ledger
InitSweep ==
  /\ InitCommon
  /\ env \in [stagehand : BOOLEAN, stripeKey : {TRUE}, webhookSecret : {TRUE},
             production : {TRUE}, cronSecret : {"k1"}]
  /\ subscription = [s \in SubIds |->
       CASE s = "s1" -> CreateSubscription("u1", "i1", 1, "a1", 2000)
         [] s = "s2" -> CreateSubscription("u2", "i3", 1, "a1", 2000)
         [] OTHER    -> CreateSubscription("u1", "i2", 2, "a1", NULL)]
  /\ stripeCustomer \in {UserIds, {"u1"}}
  /\ stripeFee = [u \in UserIds |-> "active"]

CancelInputs == {"i1"}

NextSweep ==
  \/ \E key \in {"k1"} : SweepStart(key)
  \/ \E fault \in BeginFaults : SweepItemBegin(fault)
  \/ \E fault \in FinishFaults, stripeOk \in BOOLEAN : SweepItemFinish(fault, stripeOk)
  \/ \E i \in CancelInputs : DeleteSubscriptionIntent(i)
  \/ Tick

SpecSweep == InitSweep /\ [][NextSweep]_vars

\* The subscription ledger under user edits and renewals
InitLedger ==
  /\ InitCommon
  /\ env = [stagehand |-> TRUE, stripeKey |-> TRUE, webhookSecret |-> TRUE,
           production |-> TRUE, cronSecret |-> "k1"]
  /\ subscription = [s \in SubIds |-> AbsentSubscription]
  /\ stripeCustomer = UserIds
  /\ stripeFee = [u \in UserIds |-> "active"]

LedgerSubs == {"s1"}
LedgerIntents == {"i1"}
CadenceInputs == {1, 2}
IntentUpdates ==
  [cadenceDays : CadenceInputs] \cup [status : {"active", "paused"}]
SubscriptionUpdates == [renewalFrequencyDays : CadenceInputs]

NextLedger ==
  \/ \E s \in LedgerSubs, i \in LedgerIntents, f \in CadenceInputs :
       ActivateSubscription(s, i, f, subscriptionIntent[i].maxPriceCents)
  \/ \E i \in LedgerIntents, updates \in IntentUpdates : UpdateIntent(i, updates)
  \/ \E s \in LedgerSubs, updates \in SubscriptionUpdates :
       UpdateSubscriptionDetails(s, updates)
  \/ \E key \in {"k1"} : SweepStart(key)
  \/ \E fault \in BeginFaults : SweepItemBegin(fault)
  \/ \E fault \in FinishFaults, stripeOk \in BOOLEAN : SweepItemFinish(fault, stripeOk)
  \/ Tick

SpecLedger == InitLedger /\ [][NextLedger]_vars

\* The webhook reconciler: user u1 has finished purchases for i1 and i2
HookLedgers ==
  { [s \in SubIds |-> AbsentSubscription],
    [s \in SubIds |->
       CASE s = "s1" -> CreateSubscription("u1", "i1", 1, "a1", 2000)
         [] s = "s2" -> CreateSubscription("u1", "i2", 2, "a1", 2000)
         [] OTHER    -> AbsentSubscription] }

InitHooks ==
  /\ now = 0
  /\ env \in [stagehand : {TRUE}, stripeKey : BOOLEAN, webhookSecret : BOOLEAN,
             production : {TRUE}, cronSecret : {"k1"}]
  /\ \E price \in FetchedPrices :
       subscriptionIntent = [InitIntents EXCEPT !["i1"].maxPriceCents = price]
  /\ address = AddressIds
  /\ agentRun = <<CheckoutDoneUpdate(<<NewRun("i1", "init", 1)>>, 1)[1],
                  CheckoutDoneUpdate(<<NewRun("i2", "init", 2)>>, 1)[1]>>
  /\ subscription \in HookLedgers
  /\ stripeCustomer = {"u1"}
  /\ stripeFee \in {[u \in UserIds |-> "none"],
                    [u \in UserIds |-> IF u = "u1" THEN "active" ELSE "none"]}
  /\ invoiceItems = <<>>
  /\ chat = ChatIdle
  /\ job = JobIdle
  /\ trpc = TrpcIdle
  /\ sweep = SweepIdle
  /\ lastCheckout = NoCheckout
  /\ billingRan = {}
  /\ order = <<>>
  /\ webhook = NoWebhook
  /\ cron = NoCron
  /\ bridge = NoBridge
  /\ proration = NoProration
  /\ poll = NoPoll
  /\ payment = <<>>
  /\ immediate = NoImmediate
  /\ sweepB = SweepIdle
  /\ client = NoClient

HookUsers == {"u1"}
InvoiceIds == {"in1"}
OrderRefs == {NoId, "i1", "s1"}

NextHooks ==
  \/ \E sig \in Signatures : WebhookRejected(sig)
  \/ \E u \in HookUsers : HandleCheckoutSessionCompleted(u)
  \/ \E u \in HookUsers, failing \in SUBSET {"i1"} : HandleSubscriptionCreated(u, failing)
  \/ \E inv \in InvoiceIds, ref \in OrderRefs : HandleInvoicePaymentSucceeded(inv, ref)
  \/ \E u \in HookUsers, inv \in InvoiceIds, failing \in SUBSET {"s1"} :
       HandleInvoiceCreated(u, inv, failing)
  \/ \E u \in HookUsers : HandleSubscriptionDeleted(u)
  \/ \E u \in HookUsers, status \in ReportedStatuses : HandleSubscriptionUpdated(u, status)

SpecHooks == InitHooks /\ [][NextHooks]_vars

\* The sweep endpoint behind its gate, over a ledger of one subscription
InitGate ==
  /\ InitCommon
  /\ env \in [stagehand : {TRUE}, stripeKey : {TRUE}, webhookSecret : {TRUE},
             production : BOOLEAN, cronSecret : {"unset", "k1"}]
  /\ subscription = [s \in SubIds |->
       IF s = "s1" THEN CreateSubscription("u1", "i1", 1, "a1", 2000)
                   ELSE AbsentSubscription]
  /\ stripeCustomer = UserIds
  /\ stripeFee = [u \in UserIds |-> "active"]

NextGate ==
  \/ \E key \in CronKeys : SweepStart(key)
  \/ \E method \in {"POST", "GET"}, key \in CronKeys : SweepRejected(method, key)
  \/ \E key \in CronKeys : SweepPreview(key)
  \/ \E fault \in BeginFaults : SweepItemBegin(fault)
  \/ \E fault \in FinishFaults, stripeOk \in BOOLEAN : SweepItemFinish(fault, stripeOk)
  \/ Tick

SpecGate == InitGate /\ [][NextGate]_vars

\* The orchestrator called directly with either strategy
InitOrchestrator ==
  /\ InitCommon
  /\ env \in [stagehand : BOOLEAN, stripeKey : {TRUE}, webhookSecret : {TRUE},
             production : {FALSE}, cronSecret : {"k1"}]
  /\ subscription = [s \in SubIds |-> AbsentSubscription]
  /\ stripeCustomer = {}
  /\ stripeFee = [u \in UserIds |-> "none"]

NextOrchestrator ==
  \/ \E useNativeSubscription \in BOOLEAN, provided \in {0, 1},
        i \in ChatIntentInputs, begin \in BeginFaults, finish \in FinishFaults :
       ExecuteCheckout(useNativeSubscription, provided, i, begin, finish)
  \/ \E run \in {1} : ResumeCheckoutWithPayment(run)

SpecOrchestrator == InitOrchestrator /\ [][NextOrchestrator]_vars

\* The billing bridge called directly; u2 has no stripe_customer row
InitBridge ==
  /\ InitCommon
  /\ env = [stagehand |-> TRUE, stripeKey |-> TRUE, webhookSecret |-> TRUE,
            production |-> FALSE, cronSecret |-> "k1"]
  /\ subscription = [s \in SubIds |-> AbsentSubscription]
  /\ stripeCustomer = {"u1"}
  /\ stripeFee = [u \in UserIds |-> IF u = "u1" THEN "active" ELSE "none"]

BridgeIntents == {"i1", "i2"}

NextBridge ==
  \E u \in UserIds, i \in BridgeIntents, cadenceDays \in CadenceInputs,
     stripeOk \in BOOLEAN : AppendCall(u, i, 2000, cadenceDays, stripeOk)

SpecBridge == InitBridge /\ [][NextBridge]_vars

\* calculateMonthlyProratedAmount applied to every price and cadence of
\* the bounded domain
ProrationPrices == (1..MaxPrice) \cup {2000}
ProrationCadences == 1..MaxCadence

InitProration ==
  /\ InitStore
  /\ env = [stagehand |-> TRUE, stripeKey |-> TRUE, webhookSecret |-> TRUE,
            production |-> FALSE, cronSecret |-> "k1"]
  /\ subscription = [s \in SubIds |-> AbsentSubscription]
  /\ stripeCustomer = {}
  /\ stripeFee = [u \in UserIds |-> "none"]
  /\ \E p \in ProrationPrices, c \in ProrationCadences :
       proration = [NoProration EXCEPT !.productPriceCents = p, !.cadenceDays = c]

NextProration == Calculate

SpecProration == InitProration /\ [][NextProration]_vars

\* Background jobs started over HTTP and the client that polls them
NextPoll ==
  \/ \E type \in JobTypes : PostAgentsRun(type)
  \/ \E type \in JobTypes, found \in BOOLEAN, fault \in BeginFaults :
       JobStart(type, found, fault)
  \/ \E throws \in BOOLEAN : JobAgentReturns(throws)
  \/ \E fault \in FinishFaults : JobCheckoutReturns(fault)
  \/ UseAgentJob(poll.posted)
  \/ PollStatus

SpecPoll == InitRuns /\ [][NextPoll]_vars

\* The chat tool and a client that polls one of its runs.  The tool is one
\* async function whose awaits return or throw, and setInterval fires
\* pollStatus every two seconds while the interval is set.
ChatReturns ==
  \/ \E fault \in FinishFaults : ChatCheckoutReturns(fault)
  \/ \E stripe \in StripeFaults : ChatBilling(stripe)

NextChat ==
  \/ \E u \in {"u1"}, i \in ChatIntentInputs, a \in AddressInputs,
        price \in FetchedPrices, fault \in BeginFaults :
       ChatStartCheckout(u, i, a, price, fault)
  \/ ChatReturns
  \/ \E r \in RunIds : UseAgentJob(r)
  \/ PollStatus

SpecChat == InitRuns /\ [][NextChat]_vars /\ WF_vars(ChatReturns) /\ WF_vars(PollStatus)

\* The chat tools that pause, resume and cancel an intent, the router's
\* resumeIntent and updateStatus, and the renewal sweep; one subscription
InitTools ==
  /\ InitCommon
  /\ env = [stagehand |-> TRUE, stripeKey |-> TRUE, webhookSecret |-> TRUE,
            production |-> TRUE, cronSecret |-> "k1"]
  /\ subscription = [s \in SubIds |->
       IF s = "s1" THEN CreateSubscription("u1", "i1", 1, "a1", 2000)
                   ELSE AbsentSubscription]
  /\ stripeCustomer = UserIds
  /\ stripeFee = [u \in UserIds |-> "active"]

NextTools ==
  \/ \E i \in CancelInputs : PauseSubscriptionTool(i)
  \/ \E i \in CancelInputs : ResumeSubscriptionTool(i)
  \/ \E i \in CancelInputs : DeleteSubscriptionIntent(i)
  \/ \E i \in CancelInputs : UpdateIntent(i, [status |-> "active"])
  \/ \E s \in {"s1"}, status \in {"active", "paused"} : UpdateStatus(s, status)
  \/ \E key \in {"k1"} : SweepStart(key)
  \/ \E fault \in BeginFaults : SweepItemBegin(fault)
  \/ \E fault \in FinishFaults, stripeOk \in BOOLEAN : SweepItemFinish(fault, stripeOk)
  \/ Tick

SpecTools == InitTools /\ [][NextTools]_vars

\* Failed invoice payments and the renewal sweep; one subscription
NextFailed ==
  \/ \E inv \in InvoiceIds, ref \in {NoId, "i1"} :
       HandleInvoicePaymentFailed(inv, ref)
  \/ \E key \in {"k1"} : SweepStart(key)
  \/ \E fault \in BeginFaults : SweepItemBegin(fault)
  \/ \E fault \in FinishFaults, stripeOk \in BOOLEAN : SweepItemFinish(fault, stripeOk)
  \/ Tick

SpecFailed == InitTools /\ [][NextFailed]_vars

\* Two invocations of the sweep endpoint; one subscription
NextOverlap ==
  \/ \E key \in {"k1"} : SweepStart(key)
  \/ \E fault \in BeginFaults : SweepItemBegin(fault)
  \/ \E fault \in FinishFaults, stripeOk \in BOOLEAN : SweepItemFinish(fault, stripeOk)
  \/ \E key \in {"k1"} : SweepBStart(key)
  \/ \E begin \in BeginFaults, finish \in FinishFaults, stripeOk \in BOOLEAN :
       SweepBItem(begin, finish, stripeOk)
  \/ Tick

SpecOverlap == InitTools /\ [][NextOverlap]_vars

\* The writers of Order and Payment rows; one subscription.  The value
\* passed as subscriptionIntentId is an intent's id or, for comparison, a
\* subscription's.

NextRecords ==
  \/ \E inv \in InvoiceIds, ref \in OrderRefs : HandleInvoicePaymentSucceeded(inv, ref)
  \/ \E inv \in InvoiceIds, ref \in {NoId, "i1"} :
       HandleInvoicePaymentFailed(inv, ref)
  \/ \E u \in UserIds, ref \in {"i1", "s1"}, stripeOk \in BOOLEAN :
       ChargeImmediatelyForOrder(u, ref, stripeOk)
  \/ \E i \in CancelInputs : DeleteSubscriptionIntent(i)

SpecRecords == InitTools /\ [][NextRecords]_vars

\* ------------------------------------------------------------------------
\* Properties: agent runs and billing (SpecRuns)
\* ------------------------------------------------------------------------

\* C1: over checkout completions and webhook deliveries (redelivery
\* included) every purchase attempt has exactly one charge line item at
\* the processor: never two, and never zero once its billing path has run.
C1_ExactlyOneCharge ==
  \A r \in RunIds :
    LET charges == {k \in 1..Len(invoiceItems) : invoiceItems[k].attempt = r} IN
    /\ Cardinality(charges) <= 1
    /\ r \in billingRan => Cardinality(charges) >= 1

\* C2: a run's phase never moves backward (plan, checkout, then done or
\* failed), and a run that is done or failed keeps its phase in every
\* later step of every operation.
C2_TerminalPhaseIsFinal ==
  [][\A r \in RunIds :
       LET rank(ph) == CASE ph = "plan" -> 0 [] ph = "checkout" -> 1 [] OTHER -> 2 IN
       /\ rank(agentRun'[r].phase) >= rank(agentRun[r].phase)
       /\ agentRun[r].phase \in {"done", "failed"}
            => agentRun'[r].phase = agentRun[r].phase]_vars

\* C3: for every agent run row, endedAt is set if and only if the phase is
\* done or failed.
C3_EndedAtIffTerminal ==
  \A r \in RunIds :
    (agentRun[r].endedAt # NULL) <=> (agentRun[r].phase \in {"done", "failed"})

\* C3 witness: the catch block of executeCheckout has failed one run while
\* another run is still in its checkout phase.
C3_Witness ==
  \E r, q \in RunIds :
    /\ agentRun[r].phase = "failed" /\ agentRun[r].error = "act failed"
    /\ agentRun[r].endedAt # NULL
    /\ agentRun[q].phase = "checkout" /\ agentRun[q].endedAt = NULL

\* C4: when an entry point has allocated run id X and inserted its row, the
\* checkout it starts inserts no second row for that attempt, and once the
\* attempt is no longer in flight its one row has endedAt set.
C4_OneRowPerAttempt ==
  LET attemptOf(r) == IF agentRun[r].attempt = 0 THEN r ELSE agentRun[r].attempt
      inFlight == (IF chat.pc # "idle" THEN {chat.runId} ELSE {})
                    \cup (IF job.pc # "idle" THEN {job.runId, job.run} ELSE {})
                    \cup (IF trpc.pc = "checkout" THEN {trpc.run} ELSE {})
                    \cup (IF sweep.pc = "checkout" THEN {sweep.run} ELSE {})
  IN
  /\ \A r, q \in RunIds : attemptOf(r) = attemptOf(q) => r = q
  /\ \A r \in RunIds : r \notin inFlight => agentRun[r].endedAt # NULL

\* C5: every executeCheckout call in which creating, initialising or
\* driving the browser session raises an exception returns success = false
\* to its caller (it does not throw) and leaves the tracked run failed,
\* with an error text and endedAt set.
C5_ExceptionsBecomeFailedResult ==
  lastCheckout.fault # "none" =>
    /\ lastCheckout.outcome = "failed"
    /\ ~lastCheckout.success
    /\ lastCheckout.run # 0 =>
         /\ agentRun[lastCheckout.run].phase = "failed"
         /\ agentRun[lastCheckout.run].error # ""
         /\ agentRun[lastCheckout.run].endedAt # NULL

\* C6: whenever a checkout attempt ends with success = false, every run
\* tracked for that attempt has phase failed and a non-empty error text; in
\* particular no run tracking it is marked done.
C6_FailedCheckoutSurfaces ==
  (lastCheckout.caller # "none" /\ ~lastCheckout.success) =>
    LET tracked == IF lastCheckout.run = 0 THEN {}
                   ELSE {lastCheckout.run, agentRun[lastCheckout.run].attempt} \ {0}
    IN \A x \in tracked :
         /\ agentRun[x].phase = "failed"
         /\ agentRun[x].error # ""

\* ------------------------------------------------------------------------
\* Properties: the renewal sweep (SpecSweep)
\* ------------------------------------------------------------------------

C8_OnlyDueActiveSelected ==
  [][/\ sweep'.n # sweep.n =>
          \A k \in 1..Len(sweep'.due) :
            /\ subscription[sweep'.due[k]].status = "active"
            /\ subscription[sweep'.due[k]].nextRenewalAt <= now + 1
     /\ \A k \in 1..Len(sweep'.started) :
          \E j \in 1..Len(sweep'.due) : sweep'.due[j] = sweep'.started[k]]_vars

\* C8 witness: a sweep has started a checkout while a canceled
\* subscription whose date has arrived and an active one due later than
\* tomorrow were left out of its due list.
C8_Witness ==
  /\ Len(sweep.started) >= 1
  /\ \E s, t \in SubIds :
       /\ subscription[s].status = "canceled"
       /\ subscription[s].nextRenewalAt <= now + 1
       /\ subscription[t].status = "active"
       /\ subscription[t].nextRenewalAt > now + 1
       /\ \A k \in 1..Len(sweep.due) : sweep.due[k] \notin {s, t}

\* C9: for every sweep item whose checkout returns success, the step
\* appends one charge if and only if the last known price is positive, and
\* always sets nextRenewalAt to the current time plus renewalFrequencyDays
\* before the sweep moves on.
C9_SuccessChargesAndAdvances ==
  [][(sweep.pc = "checkout" /\ sweep'.pc # "checkout" /\ lastCheckout'.success) =>
       LET sub == sweep.due[sweep.idx] IN
       /\ (Len(invoiceItems') = Len(invoiceItems) + 1)
            <=> (sweep.fullSub.lastPriceCents # NULL /\ sweep.fullSub.lastPriceCents > 0)
       /\ Len(invoiceItems') \in {Len(invoiceItems), Len(invoiceItems) + 1}
       /\ subscription'[sub].nextRenewalAt
            = now + sweep.fullSub.renewalFrequencyDays]_vars

C11_FailedRenewalRetriedNextSweep ==
  [][sweep'.n = sweep.n + 1 =>
       \A k \in 1..Len(sweep.visited) :
         (sweep.visited[k] = "failed"
            /\ subscription[sweep.due[k]].status # "canceled")
           => \E j \in 1..Len(sweep'.due) : sweep'.due[j] = sweep.due[k]]_vars

\* C13: once an intent is canceled, every subscription linked to it has
\* status canceled with canceledAt set, and the due list of every sweep
\* that starts afterwards holds none of them.
C13_CancelCascades ==
  /\ [](\A i \in IntentIds, s \in SubIds :
          (subscriptionIntent[i].status = "canceled"
             /\ subscription[s].status # "absent" /\ subscription[s].intentId = i)
            => /\ subscription[s].status = "canceled"
               /\ subscription[s].canceledAt # NULL)
  /\ [][sweep'.n = sweep.n + 1 =>
          \A k \in 1..Len(sweep'.due) :
            subscriptionIntent[subscription[sweep'.due[k]].intentId].status
              # "canceled"]_vars

\* ------------------------------------------------------------------------
\* Properties: the subscription ledger (SpecLedger)
\* ------------------------------------------------------------------------

\* C12: each subscription's nextRenewalAt equals the time of its last
\* successful purchase (its creation or its last successful renewal) plus
\* its current renewalFrequencyDays.
C12_NextRenewalTracksFrequency ==
  \A s \in SubIds :
    subscription[s].status # "absent" =>
      subscription[s].nextRenewalAt
        = subscription[s].lastPurchaseAt + subscription[s].renewalFrequencyDays

\* ------------------------------------------------------------------------
\* Properties: webhook reconciler (SpecHooks)
\* ------------------------------------------------------------------------
\* the rows of the database and the lines held by the processor
stored == <<subscriptionIntent, address, subscription, agentRun, stripeCustomer,
            stripeFee, order, invoiceItems>>

\* the step answers a request whose signature is missing or does not verify
BadSignatureAnswered ==
  /\ webhook'.n = webhook.n + 1
  /\ webhook'.signature \in {"missing", "invalid"}

\* C14 as stated: a request whose signature is missing or fails
\* verification is answered with a 400-class status; no row is inserted or
\* updated and no handler is dispatched.
C14_BadSignatureIs4xx ==
  [][BadSignatureAnswered =>
       /\ webhook'.status \in 400..499
       /\ UNCHANGED stored
       /\ webhook'.delivered = webhook.delivered]_vars

\* C14, amended: such a request is answered 400 when the Stripe key is
\* configured and either the signature is missing or the webhook secret is
\* configured, and 500 otherwise; no row is inserted or updated and no
\* handler is dispatched.
C14_BadSignatureNeverDispatched ==
  [][BadSignatureAnswered =>
       /\ webhook'.status =
            IF env.stripeKey /\ (webhook'.signature = "missing" \/ env.webhookSecret)
              THEN 400 ELSE 500
       /\ UNCHANGED stored
       /\ webhook'.delivered = webhook.delivered]_vars

C14_Witness ==
  /\ webhook.signature = "invalid"
  /\ webhook.status = 400
  /\ webhook.n = MaxEvents
  /\ webhook.delivered # {}

\* the step handles an event that was dispatched before
Redelivered(type) ==
  /\ webhook'.n = webhook.n + 1
  /\ webhook'.type = type
  /\ <<type, webhook'.object>> \in webhook.delivered

OrdersFor(rows, object) ==
  {k \in 1..Len(rows) : /\ rows[k].invoice = object.invoice
                        /\ rows[k].subscriptionId = object.ref}

\* C15: once a purchase-succeeded event that references a purchase has
\* been handled there is exactly one Order row for that purchase, and a
\* second delivery of the event leaves the number of Order rows as it was.
C15_ReplayKeepsOneOrder ==
  /\ [](\A e \in webhook.delivered :
          (e[1] = "invoice.payment_succeeded" /\ e[2].ref # NoId)
            => Cardinality(OrdersFor(order, e[2])) = 1)
  /\ [][Redelivered("invoice.payment_succeeded") => Len(order') = Len(order)]_vars

\* the step handles an event of the given type
Handled(type) ==
  /\ webhook'.n = webhook.n + 1
  /\ webhook'.type = type

\* the lines of invoice inv that bill subscription s
LinesFor(items, s, inv) ==
  {k \in 1..Len(items) : items[k].subscriptionId = s /\ items[k].invoice = inv}

\* C16: after a new-periodic-invoice event is handled without a processor
\* failure, whether for the first time or again, the invoice carries
\* exactly one charge for each active subscription of the owner that has a
\* known price.
C16_InvoiceCreatedOneChargeEach ==
  [][(/\ Handled("invoice.created")
      /\ webhook'.failed = {}
      /\ stripeFee[webhook'.object.user] # "none")
       => \A s \in SubIds :
            LineReached(webhook'.object.user, s)
              => Cardinality(LinesFor(invoiceItems', s, webhook'.object.invoice)) = 1]_vars

\* C17: once a billing-vehicle-canceled event has been applied to an
\* owner's vehicle, a billing-vehicle-updated event handled afterwards
\* (a duplicate or a late delivery) leaves the local vehicle canceled.
C17_CanceledVehicleStaysCanceled ==
  [][\A u \in UserIds :
       (/\ Handled("customer.subscription.updated")
        /\ webhook'.object.user = u
        /\ stripeFee[u] = "canceled"
        /\ \E e \in webhook.delivered :
             e[1] = "customer.subscription.deleted" /\ e[2].user = u)
         => stripeFee'[u] = "canceled"]_vars

\* C18: while a new-periodic-invoice event is handled, every active, priced
\* subscription of the owner whose own processor call does not fail gets
\* its charge on the invoice, whatever happens to the other subscriptions,
\* and the event is answered as processed.
C18_LineFailureDoesNotBlockOthers ==
  [][(Handled("invoice.created") /\ stripeFee[webhook'.object.user] # "none")
       => /\ webhook'.status = 200
          /\ \A s \in SubIds :
               (LineReached(webhook'.object.user, s) /\ s \notin webhook'.failed)
                 => Cardinality(LinesFor(invoiceItems', s, webhook'.object.invoice))
                      = Cardinality(LinesFor(invoiceItems, s, webhook'.object.invoice)) + 1]_vars

\* the charges appended for intent i
ChargesFor(items, i) ==
  {k \in 1..Len(items) : items[k].subscriptionIntentId = i}

\* C19 as stated: a billing-vehicle-activated event appends one charge for
\* every active intent of the owner that has a completed purchase attempt
\* and no linked subscription, unless the append for that intent fails,
\* and appends nothing for any other intent.
C19_ActivationBillsEveryPendingIntent ==
  [][Handled("customer.subscription.created") =>
       \A i \in IntentIds :
         Cardinality(ChargesFor(invoiceItems', i)) =
           Cardinality(ChargesFor(invoiceItems, i)) +
             (IF /\ IntentOwner[i] = webhook'.object.user
                 /\ subscriptionIntent[i].status = "active"
                 /\ \E r \in RunIds : agentRun[r].intentId = i /\ agentRun[r].phase = "done"
                 /\ \A s \in SubIds : subscription[s].status = "absent"
                                        \/ subscription[s].intentId # i
                 /\ i \notin webhook'.failed
                THEN 1 ELSE 0)]_vars

\* C19, amended: ... for every active intent of the owner that has a
\* completed purchase attempt, no linked subscription and a known non-zero
\* price (maxPriceCents), unless the append for that intent fails, and
\* appends nothing for any other intent.
C19_ActivationBillsPricedPendingIntents ==
  [][Handled("customer.subscription.created") =>
       \A i \in IntentIds :
         Cardinality(ChargesFor(invoiceItems', i)) =
           Cardinality(ChargesFor(invoiceItems, i)) +
             (IF /\ IntentOwner[i] = webhook'.object.user
                 /\ subscriptionIntent[i].status = "active"
                 /\ \E r \in RunIds : agentRun[r].intentId = i /\ agentRun[r].phase = "done"
                 /\ \A s \in SubIds : subscription[s].status = "absent"
                                        \/ subscription[s].intentId # i
                 /\ subscriptionIntent[i].maxPriceCents # NULL
                 /\ subscriptionIntent[i].maxPriceCents # 0
                 /\ i \notin webhook'.failed
                THEN 1 ELSE 0)]_vars

\* the append for i1 failed and i2 was billed all the same
C19_Witness ==
  /\ webhook.type = "customer.subscription.created"
  /\ webhook.failed = {"i1"}
  /\ ChargesFor(invoiceItems, "i2") # {}
  /\ ChargesFor(invoiceItems, "i1") = {}

\* C20: after a billing-vehicle-updated event is handled, the local
\* vehicle's status is the status the event reported.
C20_UpdatedMirrorsReportedStatus ==
  [][\A u \in UserIds :
       (/\ Handled("customer.subscription.updated")
        /\ webhook'.object.user = u
        /\ stripeFee[u] # "none")
         => stripeFee'[u] = webhook'.object.status]_vars

\* C21 as stated: the endpoint answers 200 only when the signature
\* verified and the handler completed its processing, 400 on unsigned or
\* malformed input, and 500 whenever the handler's processing raised an
\* exception.
C21_StatusReflectsProcessing ==
  [][webhook'.n = webhook.n + 1 =>
       /\ webhook'.status = 200
            => webhook'.signature = "valid" /\ webhook'.failed = {}
       /\ webhook'.signature \in {"missing", "invalid"} => webhook'.status = 400
       /\ webhook'.failed # {} => webhook'.status = 500]_vars

\* C21, amended: 200 only when the signature verified and the handler
\* returned; 400 on unsigned or malformed input when the Stripe key and,
\* for a signed request, the webhook secret are configured; 500 whenever an
\* exception escapes the handler, which a processor failure inside
\* handleInvoiceCreated or inside the per-intent append of
\* handleSubscriptionCreated does not (those are caught and answered 200).
C21_StatusReflectsEscapedException ==
  [][webhook'.n = webhook.n + 1 =>
       LET caught == webhook'.type \in {"invoice.created",
                                        "customer.subscription.created"} IN
       /\ webhook'.status = 200
            => /\ webhook'.signature = "valid"
               /\ env.stripeKey /\ env.webhookSecret
               /\ webhook'.failed = {} \/ caught
       /\ (/\ webhook'.signature \in {"missing", "invalid"}
           /\ env.stripeKey
           /\ webhook'.signature = "missing" \/ env.webhookSecret)
            => webhook'.status = 400
       /\ (webhook'.failed # {} /\ ~caught) => webhook'.status = 500
       /\ (webhook'.failed # {} /\ caught) => webhook'.status = 200]_vars

\* createOrder threw inside a verified event's handler
C21_Witness ==
  /\ webhook.signature = "valid"
  /\ webhook.type = "invoice.payment_succeeded"
  /\ webhook.failed # {}
  /\ webhook.status = 500

\* ------------------------------------------------------------------------
\* Properties: the gate of the sweep endpoint (SpecGate)
\* ------------------------------------------------------------------------
\* the request's key is the configured secret
KeyIsSecret(key) == key \in {"k1", "k2"} /\ key = env.cronSecret

\* C22: in production a sweep request (POST or GET) whose key differs from
\* the configured secret is rejected before any processing: the step that
\* answers it changes nothing but the response, and no request with such a
\* key is admitted; outside production no request is rejected.
C22_SweepGatedBySecret ==
  /\ [][cron' # cron =>
          /\ (env.production /\ ~KeyIsSecret(cron'.key))
               => /\ cron'.status = 401
                  /\ UNCHANGED <<subscriptionIntent, address, subscription, agentRun,
                                 stripeCustomer, stripeFee, invoiceItems, order,
                                 sweep, lastCheckout, billingRan>>
          /\ ~env.production => cron'.status # 401]_vars
  /\ [][sweep'.n = sweep.n + 1 => (~env.production \/ KeyIsSecret(cron'.key))]_vars

\* in production a request with a wrong key was rejected after a sweep ran
C22_Witness ==
  /\ env.production
  /\ cron.status = 401
  /\ cron.key = "k2"
  /\ sweep.n > 0

\* ------------------------------------------------------------------------
\* Properties: the orchestrator (SpecOrchestrator)
\* ------------------------------------------------------------------------
\* C23: every checkout result with success = true also has
\* requiresManualIntervention = true, whichever strategy ran, and a call of
\* resumeCheckoutWithPayment for a halted checkout returns a failure and
\* changes no row.
C23_AlwaysHaltsBeforePayment ==
  /\ [](lastCheckout.success => lastCheckout.requiresManualIntervention)
  /\ [][(lastCheckout'.caller = "resume" /\ lastCheckout' # lastCheckout)
          => /\ ~lastCheckout'.success
             /\ UNCHANGED <<agentRun, invoiceItems, subscription, order>>]_vars

\* the native strategy returned success on a run that the manual strategy
\* had finished before
C23_Witness ==
  /\ lastCheckout.useNativeSubscription
  /\ lastCheckout.success
  /\ lastCheckout.requiresManualIntervention
  /\ \E r \in RunIds : r # lastCheckout.run /\ agentRun[r].phase = "done"

\* ------------------------------------------------------------------------
\* Properties: entry points and run rows (SpecRuns)
\* ------------------------------------------------------------------------
\* C24: a checkout request whose address cannot be resolved fails without
\* an agent run row having been created: no run row carries the error of
\* an unresolved address.  (The chat tool and the tRPC procedure return
\* before any write; those steps change nothing.)
C24_NoRunForUnresolvedAddress ==
  \A r \in RunIds : agentRun[r].error # "Subscription or address not found"

\* ------------------------------------------------------------------------
\* Properties: subscription rows (SpecLedger)
\* ------------------------------------------------------------------------
\* C25: every subscription row's originating intent has at least one
\* purchase attempt that reached done.
C25_SubscriptionOnlyAfterPurchase ==
  \A s \in SubIds :
    (subscription[s].status # "absent" /\ subscription[s].intentId # NoId)
      => \E r \in RunIds : /\ agentRun[r].intentId = subscription[s].intentId
                           /\ agentRun[r].phase = "done"

\* ------------------------------------------------------------------------
\* Properties: the billing bridge (SpecBridge)
\* ------------------------------------------------------------------------
\* the invoice items that carry the identifiers of purchase event e
ItemsOf(items, e) ==
  {k \in 1..Len(items) : /\ items[k].userId = e[1]
                         /\ items[k].subscriptionIntentId = e[2]}

\* C26: a call of appendInvoiceItemForSubscription that returns has
\* created exactly one invoice item, which carries the purchase event's
\* identifiers; a call that throws has created none; and there is no
\* deduplication: the items of a purchase event are as many as the calls
\* that returned for it.
C26_OneItemPerReturnedCall ==
  /\ [][bridge'.n = bridge.n + 1 =>
          IF bridge'.last = "returned"
            THEN /\ Len(invoiceItems') = Len(invoiceItems) + 1
                 /\ SubSeq(invoiceItems', 1, Len(invoiceItems)) = invoiceItems
                 /\ Len(invoiceItems') \in ItemsOf(invoiceItems', bridge'.event)
            ELSE invoiceItems' = invoiceItems]_vars
  /\ [](\A e \in UserIds \X BridgeIntents :
          Cardinality(ItemsOf(invoiceItems, e)) =
            Cardinality({k \in 1..Len(bridge.returned) : bridge.returned[k] = e}))

\* two calls returned for the same purchase event and a third one threw
C26_Witness ==
  /\ Len(bridge.returned) = 2
  /\ bridge.returned[1] = bridge.returned[2]
  /\ Cardinality(ItemsOf(invoiceItems, bridge.returned[1])) = 2
  /\ bridge.last = "threw"

\* ------------------------------------------------------------------------
\* Properties: proration (SpecProration)
\* ------------------------------------------------------------------------
Calculated == proration.totalCents # NULL

\* C27: totalCents is productPriceCents * 30 / cadenceDays rounded to the
\* nearest cent for every positive integer price and cadence; it is 4286
\* for (cadence 14, price 2000), 2000 for (30, 2000) and 667 for (90, 2000);
\* it does not decrease when the price grows and does not grow when the
\* cadence grows.
C27_TotalIsRoundedProduct ==
  /\ ProratedTotalCents(2000, 14) = 4286
  /\ ProratedTotalCents(2000, 30) = 2000
  /\ ProratedTotalCents(2000, 90) = 667
  /\ Calculated =>
       /\ proration.totalCents =
            RoundedExactly(proration.productPriceCents, proration.cadenceDays)
       /\ proration.totalCents <=
            ProratedTotalCents(proration.productPriceCents + 1, proration.cadenceDays)
       /\ proration.totalCents >=
            ProratedTotalCents(proration.productPriceCents, proration.cadenceDays + 1)

Ended(r) ==
  /\ r \in RunIds
  /\ agentRun[r].phase \in {"done", "failed"}
  /\ agentRun[r].endedAt # NULL

C30_PostedRunIsFound ==
  (poll.runId # 0 /\ poll.runId = poll.posted) => poll.status # 404

\* ------------------------------------------------------------------------
\* Properties: pause, resume and cancel (SpecTools)
\* ------------------------------------------------------------------------
\* the sweep starts a checkout for subscription s in this step
StartsCheckout(s) ==
  /\ Len(sweep'.started) = Len(sweep.started) + 1
  /\ sweep'.started[Len(sweep'.started)] = s

\* C31: while an intent is paused (by the pauseSubscription tool, the only
\* operation that pauses an intent here), no renewal sweep executes a
\* checkout for a subscription linked to it.
C31_PausedIntentNotRenewed ==
  [][\A s \in SubIds :
       StartsCheckout(s) =>
         subscriptionIntent[subscription[s].intentId].status # "paused"]_vars

\* C32: a canceled intent stays canceled, and its linked subscriptions
\* that are canceled stay canceled, whatever operation follows.
C32_CancelIsPermanent ==
  [][\A i \in CancelInputs :
       subscriptionIntent[i].status = "canceled" =>
         /\ subscriptionIntent'[i].status = "canceled"
         /\ \A s \in SubIds :
              (subscription[s].intentId = i /\ subscription[s].status = "canceled")
                => subscription'[s].status = "canceled"]_vars

\* ------------------------------------------------------------------------
\* Properties: failed invoice payments (SpecFailed)
\* ------------------------------------------------------------------------
\* invoice.payment_failed was handled for an invoice that references
\* intent i
PaymentFailedFor(i) ==
  \E e \in webhook.delivered : e[1] = "invoice.payment_failed" /\ e[2].ref = i

\* C33: handling invoice.payment_failed leaves the subscription linked to
\* the referenced intent not active, and no later sweep executes a
\* checkout for that subscription.
C33_PaymentFailedPauses ==
  [][\A s \in SubIds :
       /\ (/\ Handled("invoice.payment_failed")
           /\ subscription[s].status # "absent"
           /\ subscription[s].intentId = webhook'.object.ref)
            => subscription'[s].status # "active"
       /\ StartsCheckout(s) => ~PaymentFailedFor(subscription[s].intentId)]_vars

\* ------------------------------------------------------------------------
\* Properties: cancel and pause against a running sweep (SpecSweep)
\* ------------------------------------------------------------------------
\* C34: a subscription that is canceled while its renewal is being
\* processed stays canceled: no step takes its status from canceled to
\* paused.
C34_FailurePathKeepsCanceled ==
  [][\A s \in SubIds :
       subscription[s].status = "canceled" => subscription'[s].status # "paused"]_vars

\* C35: a checkout is started only for a subscription that is active at
\* that moment, whatever the due list said when the sweep read it.
C35_CheckoutOnlyForActive ==
  [][\A s \in SubIds :
       StartsCheckout(s) => subscription[s].status = "active"]_vars

\* C37: a subscription is canceled exactly when its canceledAt is set.
C37_CanceledIffCanceledAt ==
  \A s \in SubIds :
    subscription[s].status # "absent" =>
      ((subscription[s].status = "canceled") <=> (subscription[s].canceledAt # NULL))

\* ------------------------------------------------------------------------
\* Properties: overlapping sweeps (SpecOverlap)
\* ------------------------------------------------------------------------
\* the first invocation has a checkout in flight for s, for the due date d
InFlight(s, d) ==
  /\ sweep.pc = "checkout"
  /\ sweep.due[sweep.idx] = s
  /\ sweep.fullSub.nextRenewalAt = d

\* the second invocation runs, in this step, the checkout of s
OtherStartsCheckout(s) ==
  /\ Len(sweepB'.started) = Len(sweepB.started) + 1
  /\ sweepB'.started[Len(sweepB'.started)] = s

\* the second invocation has appended a charge for s, for the due date d
OtherCharged(s, d) ==
  /\ s \in {sweepB.started[k] : k \in 1..Len(sweepB.started)}
  /\ sweepB.fullSub.nextRenewalAt = d
  /\ sweepB.run \in billingRan

\* C36: two overlapping invocations of the sweep never both execute a
\* checkout, and never both append a charge, for the same subscription and
\* the same due date.
C36_OverlappingSweepsRenewOnce ==
  [][\A s \in SubIds :
       /\ OtherStartsCheckout(s) => ~InFlight(s, subscription[s].nextRenewalAt)
       /\ (/\ InFlight(s, sweep.fullSub.nextRenewalAt)
           /\ Len(invoiceItems') = Len(invoiceItems) + 1
           /\ sweep'.pc # "checkout")
            => ~OtherCharged(s, sweep.fullSub.nextRenewalAt)]_vars

\* ------------------------------------------------------------------------
\* Properties: Order and Payment rows (SpecRecords)
\* ------------------------------------------------------------------------
\* id names a row of the subscription table
ExistingSubscriptionId(id) ==
  id \in SubIds /\ subscription[id].status # "absent"

\* C38: the Order row of a paid invoice that names a subscription, and
\* the Payment row of an immediate charge, carry the id of an existing
\* subscription row, and the insert is accepted.
C38_RecordsReferenceSubscriptions ==
  [][/\ (Handled("invoice.payment_succeeded") /\ webhook'.object.ref # NoId)
          => /\ Len(order') = Len(order) + 1
             /\ ExistingSubscriptionId(order'[Len(order')].subscriptionId)
     /\ (immediate'.finalized = immediate.finalized + 1)
          => /\ Len(payment') = Len(payment) + 1
             /\ ExistingSubscriptionId(payment'[Len(payment')].subscriptionId)]_vars

\* ------------------------------------------------------------------------
\* The report of the sweep over a ledger with incomplete subscriptions
\* ------------------------------------------------------------------------
\* createSubscription takes addressId and intentId as optional: the
\* columns are nullable, so a due subscription may lack either
InitReport ==
  /\ InitCommon
  /\ env \in [stagehand : BOOLEAN, stripeKey : {TRUE}, webhookSecret : {TRUE},
             production : {TRUE}, cronSecret : {"k1"}]
  /\ \E a \in {NoId, "a1"}, i \in {NoId, "i2"} :
       subscription = [s \in SubIds |->
         CASE s = "s1" -> CreateSubscription("u1", "i1", 1, "a1", 2000)
           [] s = "s2" -> CreateSubscription("u2", "i3", 1, a, 2000)
           [] OTHER    -> CreateSubscription("u1", i, 1, "a1", NULL)]
  /\ stripeCustomer = UserIds
  /\ stripeFee = [u \in UserIds |-> "active"]

NextReport ==
  \/ \E key \in {"k1"} : SweepStart(key)
  \/ \E fault \in BeginFaults : SweepItemBegin(fault)
  \/ \E fault \in FinishFaults, stripeOk \in BOOLEAN : SweepItemFinish(fault, stripeOk)
  \/ Tick

SpecReport == InitReport /\ [][NextReport]_vars

\* the number of items of the running sweep visited with one of the outcomes
VisitedWith(tags) ==
  Cardinality({k \in 1..Len(sweep.visited) : sweep.visited[k] \in tags})

ExhaustedLate(attempt, maxAttempts) == attempt > maxAttempts

\* the for-loop is left: !(attempt < maxAttempts)
Exhausted(attempt, maxAttempts) == attempt >= maxAttempts

\* the loop condition is evaluated; when it fails the function throws
\* "Agent job timed out"
LoopCheck(c) ==
  IF Exhausted(c.attempt, c.maxAttempts)
    THEN [c EXCEPT !.pc = "threw", !.outcome = "timeout"]
    ELSE [c EXCEPT !.pc = "loop"]

\* the call, up to the first await
ClientStart(runId, maxAttempts) ==
  /\ client.pc = "idle"
  /\ client' = LoopCheck([NoClient EXCEPT !.runId = runId,
                                          !.maxAttempts = maxAttempts])
  /\ UNCHANGED <<billingRan, env, now, subscriptionIntent, address, subscription,
                 agentRun, stripeCustomer, stripeFee, invoiceItems, chat, job,
                 trpc, sweep, lastCheckout, order, webhook, cron, bridge,
                 proration, poll>>
  /\ UNCHANGED <<payment, immediate, sweepB>>

\* one iteration: getAgentStatus settles, the status is inspected, and
\* after the sleep attempt++ and the loop condition.  requestOk: the
\* request reached the server and was answered
ClientPoll(requestOk) ==
  /\ client.pc = "loop"
  /\ LET c == [client EXCEPT !.polls = @ + 1] IN
     IF ~requestOk \/ client.runId \notin RunIds
       THEN client' = [c EXCEPT !.answer = "error", !.pc = "threw",
                                !.outcome = "request"]
       ELSE LET status == RunStatus(agentRun[client.runId]) IN
            client' =
              CASE status = "done" ->
                     [c EXCEPT !.answer = status, !.pc = "returned",
                               !.outcome = "result"]
                [] status = "failed" ->
                     [c EXCEPT !.answer = status, !.pc = "threw",
                               !.outcome = "failed"]
                [] OTHER ->
                     LoopCheck([c EXCEPT !.answer = status, !.attempt = @ + 1])
  /\ UNCHANGED <<billingRan, env, now, subscriptionIntent, address, subscription,
                 agentRun, stripeCustomer, stripeFee, invoiceItems, chat, job,
                 trpc, sweep, lastCheckout, order, webhook, cron, bridge,
                 proration, poll>>
  /\ UNCHANGED <<payment, immediate, sweepB>>

NextClient ==
  \/ \E type \in JobTypes : PostAgentsRun(type)
  \/ \E type \in JobTypes, found \in BOOLEAN, fault \in BeginFaults :
       JobStart(type, found, fault)
  \/ \E throws \in BOOLEAN : JobAgentReturns(throws)
  \/ \E fault \in FinishFaults : JobCheckoutReturns(fault)
  \/ \E runId \in (1..MaxRuns), maxAttempts \in (0..AttemptLimit) :
       ClientStart(runId, maxAttempts)
  \/ \E requestOk \in BOOLEAN : ClientPoll(requestOk)

\* every status request settles and every sleep ends; the job itself is
\* under no obligation to make progress
SpecClient ==
  /\ InitRuns
  /\ [][NextClient]_vars
  /\ WF_vars(\E requestOk \in BOOLEAN : ClientPoll(requestOk))

ClientSettled == client.pc \in {"returned", "threw"}

\* C40: pollAgentUntilComplete always terminates.  A poll that reports
\* done makes it return at once, a poll that reports failed or a status
\* request that fails makes it throw at once, a poll that reports
\* anything else lets it go on unless maxAttempts polls were made, and
\* the timeout is thrown after exactly maxAttempts polls.
C40_PollingTerminates ==
  /\ (client.pc = "loop") ~> ClientSettled
  /\ [](client.outcome = "timeout" => client.polls = client.maxAttempts)
  /\ [](client.pc = "loop" => client.polls < client.maxAttempts)
  /\ [][client'.polls = client.polls + 1 =>
          CASE client'.answer = "done" ->
                 client'.pc = "returned" /\ client'.outcome = "result"
            [] client'.answer = "failed" ->
                 client'.pc = "threw" /\ client'.outcome = "failed"
            [] client'.answer = "error" ->
                 client'.pc = "threw" /\ client'.outcome = "request"
            [] OTHER ->
                 IF client'.polls = client.maxAttempts
                   THEN client'.pc = "threw" /\ client'.outcome = "timeout"
                   ELSE client'.pc = "loop"]_vars

\* C40 witness: the timeout, thrown after maxAttempts polls that all
\* reported a run still running.
C40_Witness ==
  /\ client.pc = "threw"
  /\ client.outcome = "timeout"
  /\ client.maxAttempts = AttemptLimit
  /\ client.polls = AttemptLimit
  /\ client.answer = "running"

====
